---- MODULE Spec2Model ----
(***************************************************************************)
(* dataclaw: the line-log session parser (dataclaw/parser.py), the         *)
(* key-value session parser (dataclaw/parsers/cursor.py), the              *)
(* anonymization engine (dataclaw/anonymizer.py) and the search front end  *)
(* (dataclaw/search.py) as one state machine.                              *)
(* Spec is a parse of one session; AnonymizerSpec is one call of an        *)
(* anonymizer object (Anonymizer or AnonymizerWrapper) on a text or path;  *)
(* SearchSpec is one call of parse_project_sessions, build_index, search   *)
(* or _build_project_name; CacheSpec is concurrent callers of              *)
(* anonymize_text that share the pattern caches.                           *)
(*                                                                         *)
(* Text is a sequence of one-character strings, so that substitution,      *)
(* truncation and length are computed and not assumed.  An optional value  *)
(* is None (the empty tuple) or Some(v) (a one-element tuple).             *)
(***************************************************************************)
EXTENDS Integers, Sequences, FiniteSets, TLC

VARIABLES
    source,            \* "claude" (line log) or "cursor" (key-value store);
                       \* "text" or "wrapper" for a call of an anonymizer;
                       \* the function called, or "cache", otherwise
    anonymizer,        \* which anonymizer object the caller passed
    include_thinking,  \* the caller's include_thinking argument
    log,               \* what the reads of the source gave so far, in order
                       \* (for a call of an anonymizer: its arguments)
    messages,          \* the messages list being built
    metadata,          \* the metadata dict
    stats,             \* the stats dict
    skipped_lines,     \* the skipped_lines local of _parse_session_file
    pc,                \* "header", "fetch", "loop", "call", "returned" or "raised"
    result,            \* what was returned (None before, or Some(value))
    cache,             \* the lru_cache of each pattern getter
    threads            \* the concurrent callers of anonymize_text

vars == <<source, anonymizer, include_thinking, log, messages, metadata,
          stats, skipped_lines, pc, result, cache, threads>>

-----------------------------------------------------------------------------
(* Bounds of the model                                                     *)

\* Most source records (lines of one file, header references of one session).
MaxRecords == 2

\* parser.py:309 sets MAX_TOOL_INPUT_LENGTH = 300; the model scales the cut
\* down so that texts of a few characters reach it.
MAX_TOOL_INPUT_LENGTH == 4

-----------------------------------------------------------------------------
(* Optional values                                                         *)

None == <<>>
Some(v) == <<v>>
Val(o) == o[1]
\* dict.get(key, default) on an optional field
OrElse(o, d) == IF o = <<>> THEN d ELSE o[1]

\* None for the fields whose values are atoms (names, ISO timestamps)
NoneAtom == "<None>"

-----------------------------------------------------------------------------
(* Characters and text                                                     *)

UpperSeq == <<"A","B","C","D","E","F","G","H","I","J","K","L","M",
              "N","O","P","Q","R","S","T","U","V","W","X","Y","Z">>
LowerSeq == <<"a","b","c","d","e","f","g","h","i","j","k","l","m",
              "n","o","p","q","r","s","t","u","v","w","x","y","z">>
Digits == {"0","1","2","3","4","5","6","7","8","9"}
Range(s) == {s[i] : i \in DOMAIN s}

\* [a-zA-Z0-9]
IsAlnum(c) == c \in Range(UpperSeq) \cup Range(LowerSeq) \cup Digits

\* str.lower() / re.IGNORECASE on one character
Lower(c) ==
    IF c \in Range(UpperSeq)
    THEN LowerSeq[CHOOSE i \in DOMAIN UpperSeq : UpperSeq[i] = c]
    ELSE c

\* str.isspace() on one character
IsSpace(c) == c \in {" ", "\n", "\t"}

RECURSIVE LStrip(_)
LStrip(t) == IF t # <<>> /\ IsSpace(Head(t)) THEN LStrip(Tail(t)) ELSE t

RECURSIVE RStrip(_)
RStrip(t) ==
    IF t # <<>> /\ IsSpace(t[Len(t)]) THEN RStrip(SubSeq(t, 1, Len(t) - 1)) ELSE t

\* str.strip()
Strip(t) == RStrip(LStrip(t))

\* sep.join(parts)
RECURSIVE Join(_, _)
Join(sep, parts) ==
    IF parts = <<>> THEN <<>>
    ELSE IF Len(parts) = 1 THEN parts[1]
    ELSE parts[1] \o sep \o Join(sep, Tail(parts))

\* text[:n]
Prefix(t, n) == SubSeq(t, 1, IF Len(t) < n THEN Len(t) ELSE n)

\* s is a prefix of t
IsPrefix(s, t) == Len(s) <= Len(t) /\ SubSeq(t, 1, Len(s)) = s

\* name occurs in t at position i, ignoring case
MatchAt(t, i, name) ==
    /\ i + Len(name) - 1 <= Len(t)
    /\ \A k \in 1..Len(name) : Lower(t[i + k - 1]) = Lower(name[k])

\* username.lower() in text.lower()
ContainsCI(t, name) == \E i \in 1..(Len(t) + 1) : MatchAt(t, i, name)

-----------------------------------------------------------------------------
(* dataclaw/anonymizer.py                                                  *)

\* The identity of the process's user: os.path.expanduser("~") and its
\* basename.
home_dir == <<"/","h","o","m","e","/","d","a","n","a">>
primary_username == <<"d","a","n","a">>

\* "user_" + sha256(username).hexdigest()[:8]; sha256 is tabulated for the
\* identities of the model.
Sha256Hex8(name) ==
    CASE name = <<"d","a","n","a">> -> <<"2","c","9","e","0","a","2","5">>
      [] name = <<"a","l">>         -> <<"6","3","5","1","8","2","5","0">>
      [] name = <<"a","l","i","c","e">> -> <<"2","b","d","8","0","6","c","9">>
      [] name = <<"u","s","e","r">>     -> <<"0","4","f","8","9","9","6","d">>
      [] OTHER                      -> <<"0","0","0","0","0","0","0","0">>

_hash_username(name) == <<"u","s","e","r","_">> \o Sha256Hex8(name)

\* A faulty variant of UsernamePatternAt with the word boundaries of \b, for
\* which "_" is a word character.
UsernamePatternWord(t, i, name) ==
    /\ name # <<>>
    /\ MatchAt(t, i, name)
    /\ (i = 1 \/ ~(IsAlnum(t[i - 1]) \/ t[i - 1] = "_"))
    /\ (i + Len(name) > Len(t)
           \/ ~(IsAlnum(t[i + Len(name)]) \/ t[i + Len(name)] = "_"))

\* (?<![a-zA-Z0-9])username(?![a-zA-Z0-9]), re.IGNORECASE, matching at i
UsernamePatternAt(t, i, name) ==
    /\ name # <<>>
    /\ MatchAt(t, i, name)
    /\ (i = 1 \/ ~IsAlnum(t[i - 1]))
    /\ (i + Len(name) > Len(t) \/ ~IsAlnum(t[i + Len(name)]))

\* _get_username_pattern(username).sub(repl, t) from position i on:
\* leftmost, non-overlapping matches
RECURSIVE UsernameSubFrom(_, _, _, _)
UsernameSubFrom(t, i, name, repl) ==
    IF i > Len(t) THEN <<>>
    ELSE IF UsernamePatternAt(t, i, name)
         THEN repl \o UsernameSubFrom(t, i + Len(name), name, repl)
         ELSE <<t[i]>> \o UsernameSubFrom(t, i + 1, name, repl)

IsSep(c) == c \in {"/", "\\", "-"}

\* the first position from i on that holds no [/\\-]
RECURSIVE SkipSeps(_, _)
SkipSeps(t, i) == IF i <= Len(t) /\ IsSep(t[i]) THEN SkipSeps(t, i + 1) ELSE i

HomeMarkers == {<<"u","s","e","r","s">>, <<"h","o","m","e">>}

\* A faulty variant of HomePatternAt without the lookahead after the
\* username.
HomePatternNoLookahead(t, i, name) ==
    IF ~(i <= Len(t) /\ IsSep(t[i])) THEN 0
    ELSE LET j == SkipSeps(t, i)
             ms == {m \in HomeMarkers : MatchAt(t, j, m)}
         IN  IF ms = {} THEN 0
             ELSE LET m == CHOOSE x \in ms : TRUE
                      k == j + Len(m)
                      u == SkipSeps(t, k)
                  IN  IF u > k /\ MatchAt(t, u, name) THEN u ELSE 0

\* ([/\\-]+(Users|home)[/\\-]+)username(?=[^a-zA-Z0-9]|$), re.IGNORECASE:
\* 0 when the pattern does not match at i, else the position of the username
HomePatternAt(t, i, name) ==
    IF ~(i <= Len(t) /\ IsSep(t[i])) THEN 0
    ELSE LET j == SkipSeps(t, i)
             ms == {m \in HomeMarkers : MatchAt(t, j, m)}
         IN  IF ms = {} THEN 0
             ELSE LET m == CHOOSE x \in ms : TRUE
                      k == j + Len(m)
                      u == SkipSeps(t, k)
                  IN  IF /\ u > k
                         /\ MatchAt(t, u, name)
                         /\ (u + Len(name) > Len(t) \/ ~IsAlnum(t[u + Len(name)]))
                      THEN u
                      ELSE 0

\* _get_home_pattern(username).sub(r"\g<1>" + hash, t) from position i on
RECURSIVE HomeSubFrom(_, _, _, _)
HomeSubFrom(t, i, name, repl) ==
    IF i > Len(t) THEN <<>>
    ELSE LET u == HomePatternAt(t, i, name)
         IN  IF u > 0
             THEN SubSeq(t, i, u - 1) \o repl \o HomeSubFrom(t, u + Len(name), name, repl)
             ELSE <<t[i]>> \o HomeSubFrom(t, i + 1, name, repl)

\* home.startswith(("/Users/", "/home/", "C:\\Users\\"))
ConventionalHome(home) ==
    \/ IsPrefix(<<"/","U","s","e","r","s","/">>, home)
    \/ IsPrefix(<<"/","h","o","m","e","/">>, home)
    \/ IsPrefix(<<"C",":","\\","U","s","e","r","s","\\">>, home)

\* anonymize_text(text, username, username_hash, home): home is optional.
\* The homes of the model are conventional ones, for which
\* _get_custom_home_pattern returns None and the last step changes nothing.
anonymize_text(text, username, username_hash, home) ==
    IF text = <<>> \/ username = <<>> THEN text
    ELSE IF ~ContainsCI(text, username) THEN text
    ELSE IF Len(username) >= 4
         THEN UsernameSubFrom(text, 1, username, username_hash)
         ELSE HomeSubFrom(text, 1, username, username_hash)

\* Anonymizer.text / Anonymizer.path with no extra usernames
AnonymizerText(content) ==
    anonymize_text(content, primary_username, _hash_username(primary_username),
                   Some(home_dir))

-----------------------------------------------------------------------------
(* dataclaw/anonymizer.py: the lru_cache of the pattern getters            *)

\* maxsize of functools.lru_cache (32 in the source)
maxsize == 2

\* The three cached getters, by the name the model gives their caches.
Getters == {"username", "home", "custom"}

\* What a getter compiles for a key: re.compile of a pattern built from the
\* key alone, or None from _get_custom_home_pattern for a conventional home.
Compiled(fn, key) ==
    IF fn = "custom" /\ ConventionalHome(key) THEN [fn |-> "none", key |-> key]
    ELSE [fn |-> fn, key |-> key]
NoPattern == [fn |-> "none", key |-> <<>>]

\* pattern.sub(username_hash, text) for the pattern in hand
PatternSub(pat, text, username_hash) ==
    CASE pat.fn = "username" -> UsernameSubFrom(text, 1, pat.key, username_hash)
      [] pat.fn = "home"     -> HomeSubFrom(text, 1, pat.key, username_hash)
      [] OTHER               -> text

\* A cache is the sequence of its entries, least recently used first.
CacheEntry(key, value) == [key |-> key, value |-> value]
CacheHas(entries, key) == \E i \in DOMAIN entries : entries[i].key = key

\* A faulty variant of CacheGet that returns the most recently used value
\* whatever the key.
CacheGetNewest(entries, key) == entries[Len(entries)].value

\* the cached value of key
CacheGet(entries, key) ==
    entries[CHOOSE i \in DOMAIN entries : entries[i].key = key].value

\* a hit moves the entry of key to the most recently used end
CacheTouch(entries, key) ==
    SelectSeq(entries, LAMBDA e : e.key # key)
        \o SelectSeq(entries, LAMBDA e : e.key = key)

\* after a miss: the key is there already (another caller stored it), or
\* the cache is full and its least recently used entry makes room, or the
\* entry is added
CachePut(entries, key, value) ==
    IF CacheHas(entries, key) THEN entries
    ELSE IF Len(entries) >= maxsize
         THEN Append(Tail(entries), CacheEntry(key, value))
         ELSE Append(entries, CacheEntry(key, value))

\* how a miss ended, as the caller's note holds it
PutNote(entries, key) ==
    IF CacheHas(entries, key) THEN "duplicate"
    ELSE IF Len(entries) >= maxsize THEN "evicted" ELSE "stored"

NoCache == [fn \in Getters |-> <<>>]

\* The callers and the homes of the Anonymizer each of them calls.
Threads == {"t1", "t2", "t3"}
T_names == <<"d","a","n","a"," ","a","l","i","c","e"," ","u","s","e","r"," ",
             "/","h","o","m","e","/","a","l">>
CacheHomes == {<<"/","h","o","m","e","/","d","a","n","a">>,
               <<"/","h","o","m","e","/","a","l","i","c","e">>,
               <<"/","U","s","e","r","s","/","u","s","e","r">>,
               <<"/","U","s","e","r","s","/","a","l">>}
CacheTexts == {T_names, <<"h","i">>}

\* the homes of the Anonymizer objects caller t holds
HomesOf(t) ==
    CASE t = "t1" -> {<<"/","h","o","m","e","/","d","a","n","a">>,
                      <<"/","h","o","m","e","/","a","l","i","c","e">>}
      [] t = "t2" -> {<<"/","h","o","m","e","/","d","a","n","a">>}
      [] OTHER    -> {<<"/","U","s","e","r","s","/","u","s","e","r">>,
                      <<"/","U","s","e","r","s","/","a","l">>}

\* A caller: where it is in anonymize_text, its arguments, the getter it is
\* in, the pattern in hand, how its last miss ended, and its result.
Idle ==
    [at |-> "idle", text0 |-> <<>>, text |-> <<>>, username |-> <<>>,
     username_hash |-> <<>>, home |-> <<>>, fn |-> "none", pat |-> NoPattern,
     note |-> "none", out |-> None]
NoThreads == [t \in Threads |-> Idle]

\* the key the getter of a caller is called with
KeyOf(c) == IF c.fn = "custom" THEN c.home ELSE c.username

-----------------------------------------------------------------------------
(* dataclaw/secrets.py (not among the source files): redact_text           *)

\* The marker a secret is replaced by.
REDACTED == <<"[","R","E","D","A","C","T","E","D","]">>

\* In the model a secret is a maximal run of the character "#".
RECURSIVE RedactFrom(_, _)
RedactFrom(t, i) ==
    IF i > Len(t) THEN <<>>
    ELSE IF t[i] = "#"
         THEN IF i > 1 /\ t[i - 1] = "#"
              THEN RedactFrom(t, i + 1)
              ELSE REDACTED \o RedactFrom(t, i + 1)
         ELSE <<t[i]>> \o RedactFrom(t, i + 1)

\* redact_text(text)[0]
redact_text(t) == RedactFrom(t, 1)

-----------------------------------------------------------------------------
(* dataclaw/parser.py: the anonymizer objects                              *)

\* scout.tools.AnonymizerTool.run(...)["result"] (an external package): the
\* anonymization engine of section 4.1, run for the process's user.
AnonymizerToolRun(data) == AnonymizerText(data)

\* A faulty variant of ResultOr that returns what the tool gave, without the
\* fallback to the content.
ResultOnly(r, content) == r

\* result.get("result") or content
ResultOr(r, content) == IF r # <<>> THEN r ELSE content

\* AnonymizerWrapper.text / AnonymizerWrapper.path
AnonymizerWrapperText(content) ==
    IF content = <<>> THEN content
    ELSE ResultOr(AnonymizerToolRun(content), content)

\* What self._tool.run(...) does in AnonymizerWrapper: it raises, or it
\* returns a dict whose "result" is None (or absent) or a text.
ToolRaises == [raised |-> TRUE, result |-> None]
ToolReturns(r) == [raised |-> FALSE, result |-> r]

\* AnonymizerWrapper.text / AnonymizerWrapper.path for a content that is None
\* or a text, and for what the tool does when it is run
AnonymizerWrapperCall(content, outcome) ==
    IF content = None \/ Val(content) = <<>> THEN content
    ELSE IF outcome.raised THEN content
    ELSE Some(ResultOr(OrElse(outcome.result, <<>>), Val(content)))

\* whether AnonymizerWrapper.text / .path run the tool for content
RunsTool(content) == ~(content = None \/ Val(content) = <<>>)

\* PassthroughAnonymizer.text / PassthroughAnonymizer.path
PassthroughText(content) == content

\* anonymizer.text(content) and anonymizer.path(content), by the object passed
AnonText(a, content) ==
    CASE a = "passthrough" -> PassthroughText(content)
      [] a = "wrapper"     -> AnonymizerWrapperText(content)
      [] OTHER             -> AnonymizerText(content)

-----------------------------------------------------------------------------
(* dataclaw/parser.py: tool-input summaries                                *)

\* A tool input is a JSON object, [isdict |-> TRUE, items |-> <<<<key,
\* value>>, ...>>], or a JSON string, [isdict |-> FALSE, s |-> text].
DictInput(items) == [isdict |-> TRUE, items |-> items, s |-> <<>>]
StrInput(s) == [isdict |-> FALSE, items |-> <<>>, s |-> s]

\* input_data.get(key, "")
RECURSIVE DictGet(_, _)
DictGet(items, key) ==
    IF items = <<>> THEN <<>>
    ELSE IF items[Len(items)][1] = key THEN items[Len(items)][2]
    ELSE DictGet(SubSeq(items, 1, Len(items) - 1), key)

\* str(n) for a natural number
RECURSIVE IntToText(_)
IntToText(n) ==
    LET d == <<"0","1","2","3","4","5","6","7","8","9">>
    IN  IF n < 10 THEN <<d[n + 1]>> ELSE IntToText(n \div 10) \o <<d[(n % 10) + 1]>>

\* repr of a string without quotes or backslashes
ReprStr(t) == <<"'">> \o t \o <<"'">>

RECURSIVE ReprItems(_)
ReprItems(items) ==
    IF items = <<>> THEN <<>>
    ELSE ReprStr(items[1][1]) \o <<":", " ">> \o ReprStr(items[1][2])
         \o (IF Len(items) > 1 THEN <<",", " ">> ELSE <<>>)
         \o ReprItems(Tail(items))

\* str(input_data)
StrOfInput(inp) ==
    IF inp.isdict THEN <<"{">> \o ReprItems(inp.items) \o <<"}">> ELSE inp.s

\* str.lower()
LowerText(t) == [i \in DOMAIN t |-> Lower(t[i])]

K_file_path == <<"f","i","l","e","_","p","a","t","h">>
K_content == <<"c","o","n","t","e","n","t">>
K_command == <<"c","o","m","m","a","n","d">>
K_pattern == <<"p","a","t","t","e","r","n">>
K_path == <<"p","a","t","h">>
K_prompt == <<"p","r","o","m","p","t">>
K_query == <<"q","u","e","r","y">>
K_url == <<"u","r","l">>

\* _redact_and_truncate(text, anonymizer)
_redact_and_truncate(text, a) ==
    AnonText(a, Prefix(redact_text(text), MAX_TOOL_INPUT_LENGTH))

\* name = tool_name.lower() if tool_name else ""; tool_name is optional
ToolKey(tool_name) == IF tool_name = None THEN <<>> ELSE LowerText(Val(tool_name))

ShapedNames ==
    {<<"r","e","a","d">>, <<"e","d","i","t">>, <<"w","r","i","t","e">>,
     <<"g","r","e","p">>, <<"g","l","o","b">>,
     <<"w","e","b","s","e","a","r","c","h">>, <<"w","e","b","f","e","t","c","h">>}

\* the text the branches that end in _redact_and_truncate pass to it: the
\* command of bash, the prompt of task, str(input_data) otherwise
FreeText(name, inp) ==
    CASE ~inp.isdict -> StrOfInput(inp)
      [] name = <<"b","a","s","h">> -> DictGet(inp.items, K_command)
      [] name = <<"t","a","s","k">> -> DictGet(inp.items, K_prompt)
      [] OTHER -> StrOfInput(inp)

\* the branches of _summarize_tool_input with a shape of their own, given
\* anonymizer.path(file_path), anonymizer.text(redacted pattern),
\* anonymizer.text(pattern) and anonymizer.path(path)
ShapedSummary(name, inp, file_path, redacted_pattern, pattern, path) ==
    CASE name \in {<<"r","e","a","d">>, <<"e","d","i","t">>} -> file_path
      [] name = <<"w","r","i","t","e">> ->
             file_path \o <<" ", "(">> \o IntToText(Len(DictGet(inp.items, K_content)))
             \o <<" ","c","h","a","r","s",")">>
      [] name = <<"g","r","e","p">> ->
             <<"p","a","t","t","e","r","n","=">> \o redacted_pattern
             \o <<" ","p","a","t","h","=">> \o path
      [] name = <<"g","l","o","b">> ->
             <<"p","a","t","t","e","r","n","=">> \o pattern
             \o <<" ","p","a","t","h","=">> \o path
      [] name = <<"w","e","b","s","e","a","r","c","h">> -> DictGet(inp.items, K_query)
      [] OTHER -> DictGet(inp.items, K_url)

\* _summarize_tool_input with name = tool_name.lower()
SummarizeNamed(name, inp, a) ==
    IF inp.isdict /\ name \in ShapedNames
    THEN ShapedSummary(name, inp,
                       AnonText(a, DictGet(inp.items, K_file_path)),
                       AnonText(a, redact_text(DictGet(inp.items, K_pattern))),
                       AnonText(a, DictGet(inp.items, K_pattern)),
                       AnonText(a, DictGet(inp.items, K_path)))
    ELSE _redact_and_truncate(FreeText(name, inp), a)

\* _summarize_tool_input(tool_name, input_data, anonymizer)
_summarize_tool_input(tool_name, inp, a) == SummarizeNamed(ToolKey(tool_name), inp, a)

\* _normalize_timestamp(value): a raw timestamp is absent (or null), a
\* string, a number of epoch milliseconds, or of another shape.
IsoOfMillis(n) ==
    CASE n = 1000 -> "1970-01-01T00:00:01+00:00"
      [] n = 2000 -> "1970-01-01T00:00:02+00:00"
      [] OTHER    -> "1970-01-01T00:00:00+00:00"

_normalize_timestamp(value) ==
    CASE value.k = "absent" -> NoneAtom
      [] value.k = "str"    -> value.s
      [] value.k = "num"    -> IsoOfMillis(value.n)
      [] OTHER              -> NoneAtom

-----------------------------------------------------------------------------
(* The line log: one JSON document per line                                *)

\* A raw timestamp value.
TsAbsent == [k |-> "absent", s |-> NoneAtom, n |-> 0]
TsStr(s) == [k |-> "str", s |-> s, n |-> 0]
TsNum(n) == [k |-> "num", s |-> NoneAtom, n |-> n]
TsOther == [k |-> "other", s |-> NoneAtom, n |-> 0]

\* A content segment: a JSON object with a type and the payload of that type
\* (text, thinking, or a tool's name and input), or a value that is no object.
TextBlock(t) ==
    [k |-> "dict", type |-> "text", text |-> t, name |-> None,
     input |-> DictInput(<<>>)]
ThinkingBlock(t) ==
    [k |-> "dict", type |-> "thinking", text |-> t, name |-> None,
     input |-> DictInput(<<>>)]
ToolUseBlock(name, inp) ==
    [k |-> "dict", type |-> "tool_use", text |-> None, name |-> name, input |-> inp]
ImageBlock ==
    [k |-> "dict", type |-> "image", text |-> None, name |-> None,
     input |-> DictInput(<<>>)]
NonDictBlock ==
    [k |-> "nondict", type |-> "", text |-> None, name |-> None,
     input |-> DictInput(<<>>)]

\* message.content: absent, a string, a list of segments, or a number.
ContentAbsent == [k |-> "absent", s |-> <<>>, l |-> <<>>]
ContentStr(s) == [k |-> "str", s |-> s, l |-> <<>>]
ContentList(l) == [k |-> "list", s |-> <<>>, l |-> l]
ContentNum == [k |-> "num", s |-> <<>>, l |-> <<>>]

\* A usage counter: absent, an integer, or a string.
CntAbsent == [k |-> "absent", n |-> 0]
CntInt(n) == [k |-> "int", n |-> n]
CntStr == [k |-> "str", n |-> 0]

\* message.usage: absent or an object of counters.
UsageAbsent ==
    [k |-> "absent", input_tokens |-> CntAbsent,
     cache_read_input_tokens |-> CntAbsent, output_tokens |-> CntAbsent]
Usage(i, c, o) ==
    [k |-> "map", input_tokens |-> i, cache_read_input_tokens |-> c,
     output_tokens |-> o]

\* usage.get(key, 0)
CntGet(c) == IF c.k = "absent" THEN CntInt(0) ELSE c

\* A ToolUse and a Message of the canonical model.
ToolUse(tool, inp, output, status) ==
    [tool |-> tool, input |-> inp, output |-> output, status |-> status]
Message(role, content, thinking, tool_uses, timestamp) ==
    [role |-> role, content |-> content, thinking |-> thinking,
     tool_uses |-> tool_uses, timestamp |-> timestamp]

\* What a call returns: a value, or an exception that propagates.
Returned(v) == [raised |-> FALSE, value |-> v]
Raised == [raised |-> TRUE, value |-> None]

\* [b.get("text", "") for b in content if b.get("type") == "text"]
RECURSIVE UserTextParts(_)
UserTextParts(blocks) ==
    IF blocks = <<>> THEN <<>>
    ELSE (IF Head(blocks).type = "text"
          THEN <<OrElse(Head(blocks).text, <<>>)>> ELSE <<>>)
         \o UserTextParts(Tail(blocks))

\* A faulty variant of UserContent, without the test for blank content.
UserContentKeepsBlank(content, a) == Returned(Some(AnonText(a, content)))

\* the tail of _extract_user_content: None for blank content
UserContent(content, a) ==
    IF content = <<>> \/ Strip(content) = <<>>
    THEN Returned(None)
    ELSE Returned(Some(AnonText(a, content)))

\* msg_data.get("content", "") as text: a list is joined from its text
\* segments
UserContentText(c) ==
    CASE c.k = "list" -> Join(<<"\n">>, UserTextParts(c.l))
      [] c.k = "str"  -> c.s
      [] OTHER        -> <<>>

\* _extract_user_content(entry, anonymizer): a message that is no dict, a
\* segment that is no dict and a content that is no string raise
\* AttributeError
_extract_user_content(entry, a) ==
    IF entry.message = "nonmap" THEN Raised
    ELSE IF entry.message = "absent" THEN Returned(None)
    ELSE IF entry.content.k = "num" THEN Raised
    ELSE IF entry.content.k = "list"
            /\ \E i \in DOMAIN entry.content.l : entry.content.l[i].k = "nondict"
         THEN Raised
    ELSE UserContent(UserContentText(entry.content), a)

\* the text_parts / thinking_parts of _extract_assistant_content
RECURSIVE StrippedParts(_, _, _)
StrippedParts(blocks, type, a) ==
    IF blocks = <<>> THEN <<>>
    ELSE LET b == Head(blocks)
             t == Strip(OrElse(b.text, <<>>))
         IN  (IF b.k = "dict" /\ b.type = type /\ t # <<>>
              THEN <<AnonText(a, t)>> ELSE <<>>)
             \o StrippedParts(Tail(blocks), type, a)

\* the tool_uses of _extract_assistant_content
RECURSIVE ToolUsesOf(_, _)
ToolUsesOf(blocks, a) ==
    IF blocks = <<>> THEN <<>>
    ELSE LET b == Head(blocks)
         IN  (IF b.k = "dict" /\ b.type = "tool_use"
              THEN <<ToolUse(b.name, _summarize_tool_input(b.name, b.input, a),
                             None, NoneAtom)>>
              ELSE <<>>)
             \o ToolUsesOf(Tail(blocks), a)

\* the tail of _extract_assistant_content: None without parts, else the msg
\* dict (its timestamp is set by the caller)
AssistantMsg(text_parts, thinking_parts, tool_uses) ==
    IF text_parts = <<>> /\ tool_uses = <<>> /\ thinking_parts = <<>>
    THEN Returned(None)
    ELSE Returned(Some(Message(
             "assistant",
             IF text_parts # <<>> THEN Some(Join(<<"\n", "\n">>, text_parts)) ELSE None,
             IF thinking_parts # <<>>
             THEN Some(Join(<<"\n", "\n">>, thinking_parts)) ELSE None,
             tool_uses,
             NoneAtom)))

\* msg_data.get("content", []) of an assistant record whose message is a dict
\* or absent
AssistantContent(entry) ==
    IF entry.message = "absent" \/ entry.content.k = "absent"
    THEN ContentList(<<>>) ELSE entry.content

\* A faulty variant of AssistantBlocks that collects the thinking blocks
\* whatever include_thinking says.
AssistantBlocksAlwaysThinking(blocks, a, it) ==
    AssistantMsg(StrippedParts(blocks, "text", a),
                 StrippedParts(blocks, "thinking", a),
                 ToolUsesOf(blocks, a))

\* the loop of _extract_assistant_content over a list of blocks
AssistantBlocks(blocks, a, it) ==
    AssistantMsg(StrippedParts(blocks, "text", a),
                 IF it THEN StrippedParts(blocks, "thinking", a) ELSE <<>>,
                 ToolUsesOf(blocks, a))

\* _extract_assistant_content(entry, anonymizer, include_thinking)
_extract_assistant_content(entry, a, it) ==
    IF entry.message = "nonmap" THEN Raised
    ELSE IF AssistantContent(entry).k # "list" THEN Returned(None)
    ELSE AssistantBlocks(AssistantContent(entry).l, a, it)

\* What _process_entry leaves in its three mutated arguments, and whether it
\* raised.
Processed(m, d, s, r) == [messages |-> m, metadata |-> d, stats |-> s, raised |-> r]

\* A faulty variant of CaptureEnvironment that captures field by field: a
\* field the first record left absent is filled from a later record.
CaptureEnvironmentPerField(entry, md, a) ==
    IF entry.cwd # None /\ Val(entry.cwd) # <<>>
    THEN [md EXCEPT !.cwd = IF @ = None THEN Some(AnonText(a, Val(entry.cwd))) ELSE @,
                    !.git_branch = IF @ = NoneAtom THEN entry.gitBranch ELSE @,
                    !.claude_version = IF @ = NoneAtom THEN entry.version ELSE @,
                    !.session_id = IF md.cwd = None /\ entry.sessionId # NoneAtom
                                   THEN entry.sessionId ELSE @]
    ELSE md

\* _process_entry, the environment block: the first record with a cwd
CaptureEnvironment(entry, md, a) ==
    IF md.cwd = None /\ entry.cwd # None /\ Val(entry.cwd) # <<>>
    THEN [md EXCEPT !.cwd = Some(AnonText(a, Val(entry.cwd))),
                    !.git_branch = entry.gitBranch,
                    !.claude_version = entry.version,
                    !.session_id = IF entry.sessionId = NoneAtom
                                   THEN @ ELSE entry.sessionId]
    ELSE md

\* A faulty variant of AppendUser that assigns end_time like start_time, only
\* while it is None.
AppendUserEndOnce(content, msgs, md, st, timestamp) ==
    Processed(Append(msgs, Message("user", content, None, <<>>, timestamp)),
              [md EXCEPT !.start_time = IF @ = NoneAtom THEN timestamp ELSE @,
                         !.end_time = IF @ = NoneAtom THEN timestamp ELSE @],
              [st EXCEPT !.user_messages = @ + 1],
              FALSE)

\* A faulty variant of AppendUser that inserts the message at the front.
AppendUserInFront(content, msgs, md, st, timestamp) ==
    Processed(<<Message("user", content, None, <<>>, timestamp)>> \o msgs,
              [md EXCEPT !.start_time = IF @ = NoneAtom THEN timestamp ELSE @,
                         !.end_time = timestamp],
              [st EXCEPT !.user_messages = @ + 1],
              FALSE)

\* A faulty variant of AppendUser that leaves user_messages as it is.
AppendUserUncounted(content, msgs, md, st, timestamp) ==
    Processed(Append(msgs, Message("user", content, None, <<>>, timestamp)),
              [md EXCEPT !.start_time = IF @ = NoneAtom THEN timestamp ELSE @,
                         !.end_time = timestamp],
              st,
              FALSE)

\* _process_entry, the body of "if content is not None"
AppendUser(content, msgs, md, st, timestamp) ==
    Processed(Append(msgs, Message("user", content, None, <<>>, timestamp)),
              [md EXCEPT !.start_time = IF @ = NoneAtom THEN timestamp ELSE @,
                         !.end_time = timestamp],
              [st EXCEPT !.user_messages = @ + 1],
              FALSE)

\* _process_entry, the branch entry_type == "user"
ProcessUser(r, msgs, md, st, timestamp) ==
    IF r.raised THEN Processed(msgs, md, st, TRUE)
    ELSE IF r.value = None THEN Processed(msgs, md, st, FALSE)
    ELSE AppendUser(r.value, msgs, md, st, timestamp)

\* entry.get("message", {}).get("model")
EntryModel(entry) == IF entry.message = "map" THEN entry.model ELSE NoneAtom

\* entry.get("message", {}).get("usage", {})
EntryUsage(entry) == IF entry.message = "map" THEN entry.usage ELSE UsageAbsent

\* _process_entry, the body of "if msg": the model, the token counters (an
\* int plus a str raises TypeError), the message
AppendAssistant(msg, model, usage, msgs, md, st, timestamp) ==
    IF CntGet(usage.input_tokens).k = "str"
       \/ CntGet(usage.cache_read_input_tokens).k = "str"
    THEN Processed(msgs, md, st, TRUE)
    ELSE IF CntGet(usage.output_tokens).k = "str"
    THEN Processed(msgs, md,
                   [st EXCEPT !.input_tokens =
                        @ + CntGet(usage.input_tokens).n
                          + CntGet(usage.cache_read_input_tokens).n],
                   TRUE)
    ELSE Processed(Append(msgs, [msg EXCEPT !.timestamp = timestamp]),
                   [md EXCEPT !.end_time = timestamp],
                   [st EXCEPT !.input_tokens =
                                  @ + CntGet(usage.input_tokens).n
                                    + CntGet(usage.cache_read_input_tokens).n,
                              !.output_tokens = @ + CntGet(usage.output_tokens).n,
                              !.tool_uses = @ + Len(msg.tool_uses),
                              !.assistant_messages = @ + 1],
                   FALSE)

\* _process_entry, the branch entry_type == "assistant"
ProcessAssistant(r, entry, msgs, md, st, timestamp) ==
    IF r.raised THEN Processed(msgs, md, st, TRUE)
    ELSE IF r.value = None THEN Processed(msgs, md, st, FALSE)
    ELSE AppendAssistant(Val(r.value), EntryModel(entry), EntryUsage(entry), msgs,
                         IF md.model = NoneAtom
                         THEN [md EXCEPT !.model = EntryModel(entry)] ELSE md,
                         st, timestamp)

\* _process_entry with the environment already captured into md
ProcessTyped(entry, msgs, md, st, a, it, timestamp) ==
    CASE entry.type = "user" ->
             ProcessUser(_extract_user_content(entry, a), msgs, md, st, timestamp)
      [] entry.type = "assistant" ->
             ProcessAssistant(_extract_assistant_content(entry, a, it), entry,
                              msgs, md, st, timestamp)
      [] OTHER -> Processed(msgs, md, st, FALSE)

\* _process_entry(entry, messages, metadata, stats, anonymizer,
\* include_thinking)
_process_entry(entry, msgs, md, st, a, it) ==
    ProcessTyped(entry, msgs, CaptureEnvironment(entry, md, a), st, a, it,
                 _normalize_timestamp(entry.timestamp))

-----------------------------------------------------------------------------
(* The lines a session file of the model may hold                          *)

T_hi == <<"h","i">>
T_ok == <<"o","k">>
T_hm == <<"h","m">>
T_dana == <<"h","i"," ","D","a","n","a">>
T_path == <<"/","h","o","m","e","/","d","a","n","a","/","f">>
T_cmd == <<"l","s"," ","d","a","n","a">>
T_secret == <<"k","=","#","#">>

TS1 == "2024-01-01T00:00:01Z"
TS2 == "2024-01-01T00:00:02Z"

\* A JSON object with none of the keys the parser reads.
EntryBase ==
    [kind |-> "entry", type |-> "other", cwd |-> None, gitBranch |-> NoneAtom,
     version |-> NoneAtom, sessionId |-> NoneAtom, timestamp |-> TsAbsent,
     message |-> "absent", content |-> ContentAbsent, model |-> NoneAtom,
     usage |-> UsageAbsent]

\* A blank line, a line that is no JSON, and a JSON value that is no object.
BlankLine == [EntryBase EXCEPT !.kind = "blank"]
BadJsonLine == [EntryBase EXCEPT !.kind = "badjson"]
NonMappingLine == [EntryBase EXCEPT !.kind = "nonmap"]

UserEntry(c) == [EntryBase EXCEPT !.type = "user", !.message = "map", !.content = c]
AssistantEntry(c) ==
    [EntryBase EXCEPT !.type = "assistant", !.message = "map", !.content = c]

UserHi == UserEntry(ContentStr(T_hi))
AssistantOk == AssistantEntry(ContentList(<<TextBlock(Some(T_ok))>>))
AssistantEmpty == AssistantEntry(ContentList(<<>>))

\* Records that differ in the environment fields.
EnvEntries ==
    { [EntryBase EXCEPT !.cwd = Some(<<>>), !.gitBranch = "b0", !.version = "v0",
                        !.sessionId = "s0"],
      [EntryBase EXCEPT !.cwd = Some(<<"/","w">>)],
      [EntryBase EXCEPT !.cwd = Some(T_path), !.gitBranch = "b1", !.version = "v1",
                        !.sessionId = "s1"],
      [EntryBase EXCEPT !.gitBranch = "b2", !.version = "v2", !.sessionId = "s2"],
      [UserHi EXCEPT !.cwd = Some(<<"/","u">>), !.gitBranch = "b3"] }

\* Records that differ in the timestamp.
TimeEntries ==
    { [UserHi EXCEPT !.timestamp = ts] :
          ts \in {TsAbsent, TsStr(TS1), TsStr(TS2), TsNum(1000), TsOther} }
    \cup { [AssistantOk EXCEPT !.timestamp = ts] : ts \in {TsStr(TS1), TsStr(TS2)} }
    \cup { [AssistantEmpty EXCEPT !.timestamp = TsStr(TS2)] }

FreeTextTools ==
    << ToolUseBlock(Some(<<"B","a","s","h">>), DictInput(<<<<K_command, T_cmd>>>>)),
       ToolUseBlock(Some(<<"T","a","s","k">>), DictInput(<<<<K_prompt, T_secret>>>>)),
       ToolUseBlock(Some(<<"m","c","p">>), DictInput(<<<<K_url, T_dana>>>>)),
       ToolUseBlock(None, StrInput(<<"/","d","a","n","a","/">>)) >>

ShapedTools ==
    << ToolUseBlock(Some(<<"R","e","a","d">>), DictInput(<<<<K_file_path, T_path>>>>)),
       ToolUseBlock(Some(<<"W","r","i","t","e">>),
                    DictInput(<<<<K_file_path, T_path>>, <<K_content, T_dana>>>>)),
       ToolUseBlock(Some(<<"G","r","e","p">>),
                    DictInput(<<<<K_pattern, T_secret>>, <<K_path, T_path>>>>)),
       ToolUseBlock(Some(<<"G","l","o","b">>), DictInput(<<<<K_pattern, T_dana>>>>)),
       ToolUseBlock(Some(<<"W","e","b","S","e","a","r","c","h">>),
                    DictInput(<<<<K_query, T_dana>>>>)),
       ToolUseBlock(Some(<<"W","e","b","F","e","t","c","h">>),
                    DictInput(<<<<K_url, T_path>>>>)) >>

\* Records that differ in the shape of the message.
UserBodies ==
    { UserEntry(ContentStr(<<" ", "\n">>)),
      UserEntry(ContentStr(T_dana)),
      UserEntry(ContentList(<<>>)),
      UserEntry(ContentList(<<TextBlock(Some(T_hi)), ImageBlock, TextBlock(None),
                              TextBlock(Some(T_dana))>>)),
      UserEntry(ContentList(<<TextBlock(Some(T_hi)), NonDictBlock>>)),
      UserEntry(ContentNum),
      [UserHi EXCEPT !.message = "nonmap"],
      [UserHi EXCEPT !.message = "absent"] }

AssistantBodies ==
    { AssistantEmpty,
      AssistantEntry(ContentList(<<TextBlock(Some(<<" ">>)), TextBlock(None),
                                   NonDictBlock, ImageBlock>>)),
      AssistantEntry(ContentList(<<ThinkingBlock(Some(T_hm))>>)),
      AssistantEntry(ContentList(<<TextBlock(Some(<<" ">> \o T_dana \o <<" ">>)),
                                   ThinkingBlock(Some(T_hm)),
                                   TextBlock(Some(T_ok))>>)),
      AssistantEntry(ContentList(FreeTextTools)),
      AssistantEntry(ContentList(ShapedTools)),
      AssistantEntry(ContentStr(T_hi)),
      [AssistantOk EXCEPT !.message = "nonmap"] }

\* Records that differ in the model name and the usage counters.
UsageEntries ==
    { [AssistantOk EXCEPT !.model = "m1",
                          !.usage = Usage(CntInt(1), CntInt(2), CntInt(4))],
      [AssistantEmpty EXCEPT !.model = "m1",
                             !.usage = Usage(CntInt(1), CntInt(2), CntInt(4))],
      [AssistantOk EXCEPT !.model = "m2",
                          !.usage = Usage(CntInt(8), CntAbsent, CntInt(16))],
      [AssistantOk EXCEPT !.usage = Usage(CntInt(1), CntStr, CntInt(4))],
      [AssistantOk EXCEPT !.model = "m2",
                          !.usage = Usage(CntInt(1), CntAbsent, CntStr)] }

Entries == EnvEntries \cup TimeEntries \cup UserBodies \cup AssistantBodies
           \cup UsageEntries

-----------------------------------------------------------------------------
(* dataclaw/parser.py: _parse_session_file                                 *)

\* filepath.stem
FileStem == "session-file"

NoMetadata(session_id) ==
    [session_id |-> session_id, cwd |-> None, git_branch |-> NoneAtom,
     claude_version |-> NoneAtom, model |-> NoneAtom, start_time |-> NoneAtom,
     end_time |-> NoneAtom]

NoStats ==
    [user_messages |-> 0, assistant_messages |-> 0, tool_uses |-> 0,
     input_tokens |-> 0, output_tokens |-> 0]

\* the dict _parse_session_file returns
SessionDict(md, msgs, st, skipped) ==
    [session_id |-> md.session_id, model |-> md.model, git_branch |-> md.git_branch,
     start_time |-> md.start_time, end_time |-> md.end_time, messages |-> msgs,
     stats |-> [user_messages |-> st.user_messages,
                assistant_messages |-> st.assistant_messages,
                tool_uses |-> st.tool_uses,
                input_tokens |-> st.input_tokens,
                output_tokens |-> st.output_tokens,
                skipped_lines |-> skipped]]

InFile == source = "claude" /\ pc = "loop" /\ Len(log) < MaxRecords

\* a line that is empty after strip(): continue
ReadBlank ==
    /\ InFile
    /\ log' = Append(log, BlankLine)
    /\ UNCHANGED <<cache, threads, source, anonymizer, include_thinking, messages, metadata, stats,
                   skipped_lines, pc, result>>

\* A faulty variant of ReadUndecodable in which the decode error ends the
\* parse of the file.
ReadUndecodableAborts ==
    /\ InFile
    /\ log' = Append(log, BadJsonLine)
    /\ pc' = "raised"
    /\ UNCHANGED <<cache, threads, source, anonymizer, include_thinking, messages, metadata, stats,
                   skipped_lines, result>>

\* json.loads raises JSONDecodeError: skipped_lines += 1; continue
ReadUndecodable ==
    /\ InFile
    /\ log' = Append(log, BadJsonLine)
    /\ skipped_lines' = skipped_lines + 1
    /\ UNCHANGED <<cache, threads, source, anonymizer, include_thinking, messages, metadata, stats,
                   pc, result>>

\* json.loads returns a value that is no dict: entry.get raises
\* AttributeError, which the except OSError clause does not catch
ReadNonMapping ==
    /\ InFile
    /\ log' = Append(log, NonMappingLine)
    /\ pc' = "raised"
    /\ UNCHANGED <<cache, threads, source, anonymizer, include_thinking, messages, metadata, stats,
                   skipped_lines, result>>

\* json.loads returns a dict: _process_entry(entry, ...)
ReadEntry(entry) ==
    /\ InFile
    /\ log' = Append(log, entry)
    /\ \E r \in {_process_entry(entry, messages, metadata, stats, anonymizer,
                                include_thinking)} :
           /\ messages' = r.messages
           /\ metadata' = r.metadata
           /\ stats' = r.stats
           /\ pc' = IF r.raised THEN "raised" ELSE pc
    /\ UNCHANGED <<cache, threads, source, anonymizer, include_thinking, skipped_lines, result>>

\* What log holds for an open() or a read of the file that raised OSError.
ReadError == [EntryBase EXCEPT !.kind = "oserror"]

\* open() or the read raises OSError: return None
ReadFails ==
    /\ source = "claude" /\ pc = "loop"
    /\ log' = Append(log, ReadError)
    /\ pc' = "returned"
    /\ result' = None
    /\ UNCHANGED <<cache, threads, source, anonymizer, include_thinking, messages, metadata,
                   stats, skipped_lines>>

\* A faulty variant of EndOfFile that returns the session dict also when
\* there is no message.
EndOfFileKeepsEmpty ==
    /\ source = "claude" /\ pc = "loop"
    /\ pc' = "returned"
    /\ result' = Some(SessionDict(metadata, messages, stats, skipped_lines))
    /\ UNCHANGED <<cache, threads, source, anonymizer, include_thinking, log, messages, metadata,
                   stats, skipped_lines>>

\* the file is exhausted: None without messages, else the session dict
EndOfFile ==
    /\ source = "claude" /\ pc = "loop"
    /\ pc' = "returned"
    /\ result' = IF messages = <<>> THEN None
                 ELSE Some(SessionDict(metadata, messages, stats, skipped_lines))
    /\ UNCHANGED <<cache, threads, source, anonymizer, include_thinking, log, messages, metadata,
                   stats, skipped_lines>>

-----------------------------------------------------------------------------
(* dataclaw/parsers/cursor.py: pure helpers                                *)

\* A JSON value of the store: null, a string that is no JSON document, an
\* object, or an object wrapping a list of tool-call descriptors under
\* "tools" (n descriptors; items are the parameters of the first, themselves
\* serialised penc times).  enc counts how many times the value was
\* serialised to a JSON string on top of itself.
JNull == [k |-> "null", enc |-> 0, s |-> <<>>, items |-> <<>>, n |-> 0, penc |-> 0]
JStr(s) == [k |-> "str", enc |-> 0, s |-> s, items |-> <<>>, n |-> 0, penc |-> 0]
JDict(items) ==
    [k |-> "dict", enc |-> 0, s |-> <<>>, items |-> items, n |-> 0, penc |-> 0]
JTools(n, items, penc) ==
    [k |-> "tools", enc |-> 0, s |-> <<>>, items |-> items, n |-> n, penc |-> penc]
JEnc(v) == [v EXCEPT !.enc = @ + 1]

\* _try_parse_json(s): decode while the value is a string holding JSON
RECURSIVE _try_parse_json(_)
_try_parse_json(v) == IF v.enc > 0 THEN _try_parse_json([v EXCEPT !.enc = @ - 1]) ELSE v

\* name.find(c, start) with 1-based positions; 0 when there is none
FindFrom(t, c, start) ==
    LET ps == {i \in start..Len(t) : t[i] = c}
    IN  IF ps = {} THEN 0 ELSE CHOOSE i \in ps : \A j \in ps : i <= j

\* name.rfind(c, 0, end): the last position before end; 0 when there is none
RFindBefore(t, c, end) ==
    LET ps == {i \in 1..(end - 1) : t[i] = c}
    IN  IF ps = {} THEN 0 ELSE CHOOSE i \in ps : \A j \in ps : i >= j

\* text[i:] with a 1-based i
Suffix(t, i) == SubSeq(t, i, Len(t))

\* the server-name scan of _strip_mcp_prefix: the least length, and "-"
\* before "-user-", for which rest is server + sep + server + "-" + tool
ServerScan(name) ==
    LET rest == Suffix(name, 5)
        after(len) == Suffix(rest, len + 1)
        hit(len, sep) == IsPrefix(sep \o SubSeq(rest, 1, len) \o <<"-">>, after(len))
        seps == << <<"-">>, <<"-","u","s","e","r","-">> >>
        hits == {<<len, si>> \in (1..(Len(rest) \div 2)) \X (1..2) : hit(len, seps[si])}
    IN  IF hits = {} THEN name
        ELSE LET h == CHOOSE x \in hits :
                          \A y \in hits : x[1] < y[1] \/ (x[1] = y[1] /\ x[2] <= y[2])
             IN  Suffix(after(h[1]), Len(seps[h[2]]) + h[1] + 2)

\* _strip_mcp_prefix(name)
_strip_mcp_prefix(name) ==
    IF name = <<>> \/ ~IsPrefix(<<"m","c","p">>, name) THEN name
    ELSE IF IsPrefix(<<"m","c","p","_">>, name)
         THEN LET p2 == FindFrom(name, "_", 5)
              IN  IF p2 > 0 THEN Suffix(name, p2 + 1) ELSE name
    ELSE IF IsPrefix(<<"m","c","p","-">>, name)
         THEN LET underscore_pos == FindFrom(name, "_", 5)
                  dash_pos == IF underscore_pos > 0
                              THEN RFindBefore(name, "-", underscore_pos) ELSE 0
              IN  IF underscore_pos > 1 /\ dash_pos > 4
                  THEN Suffix(name, dash_pos + 1)
                  ELSE ServerScan(name)
    ELSE name

\* Helpers the caller passes to parse_session (defined outside the source
\* files at hand).
\* _safe_int(value): non-numeric and absent values count as zero
_safe_int(c) == IF c.k = "int" THEN c.n ELSE 0

\* _update_time_bounds(metadata, timestamp): start_time on the first
\* message, end_time on every message
_update_time_bounds(md, timestamp) ==
    [md EXCEPT !.start_time = IF @ = NoneAtom THEN timestamp ELSE @,
               !.end_time = timestamp]

\* _parse_tool_input(tool_name, params, anonymizer): the summary of the tool
\* table
_parse_tool_input(tool_name, items, a) ==
    _summarize_tool_input(Some(tool_name), DictInput(items), a)

\* _make_session_result(metadata, messages, stats): the populated session
_make_session_result(md, msgs, st) == Some(SessionDict(md, msgs, st, 0))

-----------------------------------------------------------------------------
(* dataclaw/parsers/cursor.py: one turn of parse_session                   *)

\* workspaceUris: "absent", a "list" with a first element, an "empty" list, or
\* a value that is no list ("nonlist")
Uris(k, first) == [k |-> k, first |-> first]

\* modelInfo: "absent", a "dict" with a model name, a dict whose name is
\* "blank" or no string, or a value that is no dict ("nondict")
ModelInfo(k, name) == [k |-> k, name |-> name]

\* a tool's status: "absent", a "str", a "dict" holding a status string, or
\* a value of another type ("other")
Status(k, s) == [k |-> k, s |-> s]

\* toolFormerData: "absent" (or no dict), or a "dict" with a tool name, its
\* params and result as stored, and a status
TfdAbsent ==
    [k |-> "absent", name |-> <<>>, params |-> JNull, result |-> JNull,
     status |-> Status("absent", NoneAtom)]
Tfd(name, params, res, status) ==
    [k |-> "dict", name |-> name, params |-> params, result |-> res,
     status |-> status]

\* thinking: "absent" or a "dict" with an optional text
Thinking(k, text) == [k |-> k, text |-> text]

\* tokenCount: "absent" or a "dict" of two counters
TokenCount(k, i, o) == [k |-> k, inputTokens |-> i, outputTokens |-> o]

\* the "tools" key of a parameters object that wraps tool-call descriptors
K_tools == <<"t","o","o","l","s">>
\* the key of a tool output that wraps a text blob
K_text == <<"t","e","x","t">>

\* timestamp = bubble.get("createdAt"), normalized when it is a number
TurnTimestamp(bubble) ==
    CASE bubble.createdAt.k = "absent" -> NoneAtom
      [] bubble.createdAt.k = "num"    -> _normalize_timestamp(bubble.createdAt)
      [] bubble.createdAt.k = "str"    -> bubble.createdAt.s
      [] OTHER                         -> "<raw>"

\* uri[7:] if uri.startswith("file://")
StripFileScheme(uri) ==
    IF IsPrefix(<<"f","i","l","e",":","/","/">>, uri) THEN Suffix(uri, 8) ELSE uri

\* parse_session, the cwd block: the first turn with a workspace URI
TurnCwd(bubble, md, a) ==
    IF md.cwd = None /\ bubble.workspaceUris.k = "list"
       /\ bubble.workspaceUris.first # <<>>
    THEN [md EXCEPT !.cwd = Some(AnonText(a, StripFileScheme(bubble.workspaceUris.first)))]
    ELSE md

\* A faulty variant of TurnModel in which every turn that names a model
\* overwrites the one recorded before.
TurnModelLastWins(bubble, md) ==
    IF bubble.modelInfo.k = "dict"
    THEN [md EXCEPT !.model = bubble.modelInfo.name]
    ELSE md

\* parse_session, the model block: the first turn with a non-blank model name
TurnModel(bubble, md) ==
    IF bubble.modelInfo.k = "dict" /\ md.model = NoneAtom
    THEN [md EXCEPT !.model = bubble.modelInfo.name]
    ELSE md

\* (bubble.get("text") or "").strip()
TurnText(bubble) == Strip(OrElse(bubble.text, <<>>))

\* the thinking text, when thinking is included and is a dict
TurnThinkText(bubble, it) ==
    IF it /\ bubble.thinking.k = "dict"
    THEN Strip(OrElse(bubble.thinking.text, <<>>)) ELSE <<>>

\* msg["content"]: the text redacted, then anonymized; absent without text
TurnContent(text, a) ==
    IF text # <<>> THEN Some(AnonText(a, redact_text(text))) ELSE None

\* msg["thinking"]: anonymized; absent without thinking text
TurnThinking(think_text, a) ==
    IF think_text # <<>> THEN Some(AnonText(a, think_text)) ELSE None

\* the parameters passed to _parse_tool_input: the decoded params, unwrapped
\* from a single tool-call descriptor, or {} when they are no object
ToolParams(params_raw) ==
    CASE params_raw.k = "tools" /\ params_raw.n = 1 -> params_raw.items
      [] params_raw.k = "tools" -> <<<<K_tools, <<"[",".",".",".","]">>>>>>
      [] params_raw.k = "dict" -> params_raw.items
      [] OTHER -> <<>>

\* tool_output, from the decoded result
ToolOutput(result_raw, a) ==
    CASE result_raw.k = "str" /\ Strip(result_raw.s) # <<>> ->
             <<<<K_text, AnonText(a, redact_text(result_raw.s))>>>>
      [] result_raw.k \in {"dict", "tools"} ->
             [i \in DOMAIN result_raw.items |->
                 <<result_raw.items[i][1], AnonText(a, result_raw.items[i][2])>>]
      [] result_raw.k = "str" -> <<<<K_text, AnonText(a, result_raw.s)>>>>
      [] OTHER -> <<>>

\* tool_entry["status"]: absent unless the status is a string
ToolStatus(status) ==
    CASE status.k = "absent" -> "unknown"
      [] status.k \in {"str", "dict"} -> status.s
      [] OTHER -> NoneAtom

\* tool_entry
ToolEntry(tool_name, tfd, a) ==
    ToolUse(Some(tool_name),
            _parse_tool_input(tool_name, ToolParams(_try_parse_json(tfd.params)), a),
            ToolOutput(_try_parse_json(tfd.result), a),
            ToolStatus(tfd.status))

\* tool_name_raw
ToolNameRaw(bubble) ==
    IF bubble.toolFormerData.k = "dict" THEN bubble.toolFormerData.name ELSE <<>>

\* the token block at the end of the loop body
CountTokens(bubble, st) ==
    IF bubble.tokenCount.k = "dict"
    THEN [st EXCEPT !.input_tokens = @ + _safe_int(bubble.tokenCount.inputTokens),
                    !.output_tokens = @ + _safe_int(bubble.tokenCount.outputTokens)]
    ELSE st

\* What one pass of the loop body leaves in messages, metadata and stats.
Parsed(m, d, s) == [messages |-> m, metadata |-> d, stats |-> s]

\* the loop body from "bubble_type = bubble.get("type")" on; "continue"
\* skips the token block
ParseTyped(bubble, msgs, md, st, a, timestamp, text, think_text) ==
    CASE bubble.type = 1 ->
             IF text = <<>> THEN Parsed(msgs, md, st)
             ELSE Parsed(Append(msgs, Message("user", TurnContent(text, a), None,
                                              <<>>, timestamp)),
                         _update_time_bounds(md, timestamp),
                         CountTokens(bubble, [st EXCEPT !.user_messages = @ + 1]))
      [] bubble.type = 2 /\ ToolNameRaw(bubble) # <<>> ->
             Parsed(Append(msgs, Message("assistant", TurnContent(text, a),
                                         TurnThinking(think_text, a),
                                         <<ToolEntry(_strip_mcp_prefix(ToolNameRaw(bubble)),
                                                     bubble.toolFormerData, a)>>,
                                         timestamp)),
                    _update_time_bounds(md, timestamp),
                    CountTokens(bubble, [st EXCEPT !.assistant_messages = @ + 1,
                                                   !.tool_uses = @ + 1]))
      [] bubble.type = 2 ->
             IF text = <<>> /\ think_text = <<>> THEN Parsed(msgs, md, st)
             ELSE Parsed(Append(msgs, Message("assistant", TurnContent(text, a),
                                              TurnThinking(think_text, a), <<>>,
                                              timestamp)),
                         _update_time_bounds(md, timestamp),
                         CountTokens(bubble, [st EXCEPT !.assistant_messages = @ + 1]))
      [] OTHER -> Parsed(msgs, md, CountTokens(bubble, st))

\* the loop body of parse_session for one header whose payload is in
\* bubble_map
ParseTurn(bubble, msgs, md, st, a, it) ==
    ParseTyped(bubble, msgs, TurnModel(bubble, TurnCwd(bubble, md, a)), st, a,
               TurnTimestamp(bubble), TurnText(bubble), TurnThinkText(bubble, it))

-----------------------------------------------------------------------------
(* The turns a session of the key-value store may hold                     *)

\* A header reference together with what the bulk fetch holds for it: a
\* payload ("ok"), nothing ("missing"), a payload that is no JSON
\* ("badjson"), or an empty object ("empty").  hasId is whether the header
\* carries a bubbleId at all.
BubbleBase ==
    [kind |-> "turn", hasId |-> TRUE, stored |-> "ok", createdAt |-> TsAbsent,
     workspaceUris |-> Uris("absent", <<>>),
     modelInfo |-> ModelInfo("absent", NoneAtom), type |-> 0,
     text |-> None, toolFormerData |-> TfdAbsent, thinking |-> Thinking("absent", None),
     tokenCount |-> TokenCount("absent", CntAbsent, CntAbsent)]

UserTurn(t) == [BubbleBase EXCEPT !.type = 1, !.text = t]
AssistantTurn(t, th) == [BubbleBase EXCEPT !.type = 2, !.text = t, !.thinking = th]
ToolTurn(tfd) == [BubbleBase EXCEPT !.type = 2, !.toolFormerData = tfd]

T_uri == <<"f","i","l","e",":","/","/">> \o T_path

AbsentTurns ==
    { [BubbleBase EXCEPT !.stored = "missing"],
      [BubbleBase EXCEPT !.stored = "badjson"],
      [BubbleBase EXCEPT !.stored = "empty"],
      [UserTurn(Some(T_hi)) EXCEPT !.hasId = FALSE] }

UserTurns ==
    { [UserTurn(Some(T_hi)) EXCEPT !.createdAt = ts] :
          ts \in {TsAbsent, TsNum(1000), TsNum(2000), TsStr(TS1), TsOther} }
    \cup { UserTurn(Some(<<" ">>)), UserTurn(None),
           [UserTurn(Some(<<" ">> \o T_secret \o <<" ">> \o T_dana)) EXCEPT
                !.workspaceUris = Uris("list", T_uri), !.modelInfo = ModelInfo("dict", "m1"),
                !.tokenCount = TokenCount("dict", CntInt(1), CntInt(2))],
           [UserTurn(None) EXCEPT
                !.tokenCount = TokenCount("dict", CntInt(4), CntInt(8))],
           [UserTurn(Some(T_ok)) EXCEPT
                !.tokenCount = TokenCount("dict", CntStr, CntAbsent)] }

AssistantTurns ==
    { [AssistantTurn(Some(T_ok), Thinking("absent", None)) EXCEPT !.createdAt = TsStr(TS2)],
      AssistantTurn(None, Thinking("dict", Some(T_hm))),
      AssistantTurn(Some(T_dana), Thinking("dict", Some(<<" ">>))),
      [AssistantTurn(Some(<<" ">>), Thinking("dict", None)) EXCEPT
           !.workspaceUris = Uris("list", <<"/","w">>), !.modelInfo = ModelInfo("dict", "m2"),
           !.tokenCount = TokenCount("dict", CntInt(16), CntInt(32))] }

ToolTurns ==
    { ToolTurn(Tfd(<<"m","c","p","_","s","_","B","a","s","h">>,
                   JDict(<<<<K_command, T_cmd>>>>), JStr(T_dana), Status("str", "done"))),
      [ToolTurn(Tfd(<<"r","e","a","d">>,
                    JEnc(JEnc(JDict(<<<<K_file_path, T_path>>>>))),
                    JEnc(JDict(<<<<K_path, T_path>>>>)), Status("dict", "error")))
           EXCEPT !.text = Some(T_ok), !.thinking = Thinking("dict", Some(T_hm))],
      ToolTurn(Tfd(<<"m","c","p","-","a","-","a","-","t">>,
                   JTools(1, <<<<K_prompt, T_secret>>>>, 1), JNull,
                   Status("other", NoneAtom))),
      ToolTurn(Tfd(<<"t","a","s","k">>,
                   JTools(2, <<<<K_prompt, T_secret>>>>, 0), JStr(<<" ">>),
                   Status("absent", NoneAtom))),
      ToolTurn(Tfd(<<>>, JStr(T_hi), JNull, Status("absent", NoneAtom))) }

OtherTurns ==
    { [BubbleBase EXCEPT !.workspaceUris = Uris("empty", <<>>),
                         !.modelInfo = ModelInfo("blank", NoneAtom)],
      [BubbleBase EXCEPT !.workspaceUris = Uris("nonlist", <<>>),
                         !.modelInfo = ModelInfo("nondict", NoneAtom)],
      [BubbleBase EXCEPT !.workspaceUris = Uris("list", <<>>),
                         !.tokenCount = TokenCount("dict", CntInt(64), CntStr)] }

Turns == AbsentTurns \cup UserTurns \cup AssistantTurns \cup ToolTurns \cup OtherTurns

\* the session key passed to parse_session
ComposerId == "composer-1"

-----------------------------------------------------------------------------
(* dataclaw/parsers/cursor.py: parse_session                               *)

\* the composerData row is absent, is no JSON, or lists no turn: return None
HeaderMissing ==
    /\ source = "cursor" /\ pc = "header"
    /\ pc' = "returned"
    /\ result' = None
    /\ UNCHANGED <<cache, threads, source, anonymizer, include_thinking, log, messages, metadata,
                   stats, skipped_lines>>

\* a query on the store raises sqlite3.Error: parse_session has no handler
StorageError ==
    /\ source = "cursor" /\ pc \in {"header", "fetch"}
    /\ pc' = "raised"
    /\ UNCHANGED <<cache, threads, source, anonymizer, include_thinking, log, messages, metadata,
                   stats, skipped_lines, result>>

\* the header row lists at least one turn
HeaderLoaded ==
    /\ source = "cursor" /\ pc = "header"
    /\ pc' = "fetch"
    /\ UNCHANGED <<cache, threads, source, anonymizer, include_thinking, log, messages, metadata,
                   stats, skipped_lines, result>>

\* the bulk fetch of the session's bubbles into bubble_map
BubblesFetched ==
    /\ source = "cursor" /\ pc = "fetch"
    /\ pc' = "loop"
    /\ UNCHANGED <<cache, threads, source, anonymizer, include_thinking, log, messages, metadata,
                   stats, skipped_lines, result>>

InSession == source = "cursor" /\ pc = "loop" /\ Len(log) < MaxRecords

\* A faulty variant of SkipTurn that represents the turn without payload by
\* an empty assistant message.
SkipTurnAppendsEmpty(h) ==
    /\ InSession
    /\ ~(h.hasId /\ h.stored = "ok")
    /\ log' = Append(log, h)
    /\ messages' = Append(messages, Message("assistant", None, None, <<>>, NoneAtom))
    /\ stats' = [stats EXCEPT !.assistant_messages = @ + 1]
    /\ UNCHANGED <<cache, threads, source, anonymizer, include_thinking, metadata, skipped_lines,
                   pc, result>>

\* the next header has no payload in bubble_map: continue
SkipTurn(h) ==
    /\ InSession
    /\ ~(h.hasId /\ h.stored = "ok")
    /\ log' = Append(log, h)
    /\ UNCHANGED <<cache, threads, source, anonymizer, include_thinking, messages, metadata, stats,
                   skipped_lines, pc, result>>

\* the next header has a payload: one pass of the loop body
Turn(h) ==
    /\ InSession
    /\ h.hasId /\ h.stored = "ok"
    /\ log' = Append(log, h)
    /\ \E r \in {ParseTurn(h, messages, metadata, stats, anonymizer,
                           include_thinking)} :
           /\ messages' = r.messages
           /\ metadata' = r.metadata
           /\ stats' = r.stats
    /\ UNCHANGED <<cache, threads, source, anonymizer, include_thinking, skipped_lines, pc, result>>

\* the headers are exhausted (there is at least one): the model default and
\* the session result
SessionEnd ==
    /\ source = "cursor" /\ pc = "loop" /\ Len(log) >= 1
    /\ pc' = "returned"
    /\ LET md == IF metadata.model = NoneAtom
                 THEN [metadata EXCEPT !.model = "cursor-unknown"] ELSE metadata
       IN  /\ metadata' = md
           /\ result' = _make_session_result(md, messages, stats)
    /\ UNCHANGED <<cache, threads, source, anonymizer, include_thinking, log, messages, stats,
                   skipped_lines>>

-----------------------------------------------------------------------------
(* The state machine                                                       *)

Init ==
    /\ source \in {"claude", "cursor"}
    /\ anonymizer \in (IF source = "claude" THEN {"passthrough", "wrapper"}
                       ELSE {"engine"})
    /\ include_thinking \in BOOLEAN
    /\ log = <<>>
    /\ messages = <<>>
    /\ metadata = NoMetadata(IF source = "claude" THEN FileStem ELSE ComposerId)
    /\ stats = NoStats
    /\ skipped_lines = 0
    /\ pc = IF source = "claude" THEN "loop" ELSE "header"
    /\ result = None
    /\ cache = NoCache
    /\ threads = NoThreads

Next ==
    \/ ReadBlank
    \/ ReadUndecodable
    \/ ReadNonMapping
    \/ \E entry \in Entries : ReadEntry(entry)
    \/ ReadFails
    \/ EndOfFile
    \/ HeaderMissing
    \/ StorageError
    \/ HeaderLoaded
    \/ BubblesFetched
    \/ \E h \in Turns : SkipTurn(h)
    \/ \E h \in Turns : Turn(h)
    \/ SessionEnd

Spec == Init /\ [][Next]_vars

-----------------------------------------------------------------------------
(* dataclaw/anonymizer.py: the calls of an Anonymizer                      *)

\* str.upper() on one character
Upper(c) ==
    IF c \in Range(LowerSeq)
    THEN UpperSeq[CHOOSE i \in DOMAIN LowerSeq : LowerSeq[i] = c]
    ELSE c

\* str.upper() and str.capitalize() on a lower-case name
UpperText(t) == [i \in DOMAIN t |-> Upper(t[i])]
Capitalize(t) == [i \in DOMAIN t |-> IF i = 1 THEN Upper(t[i]) ELSE t[i]]

\* os.path.basename(home)
Basename(home) == Suffix(home, RFindBefore(home, "/", Len(home) + 1) + 1)

\* Anonymizer.__init__ without extra usernames, for the home directory that
\* _detect_home_dir finds
Anonymizer(home) ==
    [home |-> home, username |-> Basename(home),
     username_hash |-> _hash_username(Basename(home))]

\* The home directories of the users of the model: a name below and a name
\* above the four characters of anonymize_text, and a name that stands in
\* the prefix of every hash token.
Homes == {<<"/","U","s","e","r","s","/","a","l">>,
          <<"/","h","o","m","e","/","a","l","i","c","e">>,
          <<"/","h","o","m","e","/","u","s","e","r">>}

\* What stands before and after a user's name in the texts of the model:
\* prose, home markers in their spellings, joiners and near misses.
Befores ==
    { <<>>, <<"h","i"," ">>, <<"/","U","s","e","r","s","/">>,
      <<"-","U","s","e","r","s","-">>, <<"\\","h","o","m","e","\\">>,
      <<"/","/","H","O","M","E","-","-">>, <<"x">>, <<"_">>,
      <<"U","s","e","r","s","/">>, <<"/","u","s","r","/">>,
      <<"/","U","s","e","r","s">>, <<"C",":","\\","U","s","e","r","s","\\">> }
Afters ==
    { <<>>, <<" ","o","k">>,
      <<"/","p","r","o","j","e","c","t","/","m","a","i","n",".","p","y">>,
      <<"-","D","o","c","u","m","e","n","t","s","-","m","y","p","r","o","j","e","c","t">>,
      <<"x">>, <<"_","1">>, <<".">>, <<"9">> }

\* the spellings of a name
NameForms(name) == {name, UpperText(name), Capitalize(name)}

\* texts in which the name stands twice
Twice(name) ==
    LET parts == {name, <<"/","U","s","e","r","s","/">> \o name, <<"x">> \o name,
                  <<"-","h","o","m","e","-">> \o UpperText(name)}
    IN  {x \o <<" ">> \o y : x \in parts, y \in parts}

\* the texts and paths handed to the anonymizer of a user
TextsOf(name) ==
    {b \o n \o a : b \in Befores, n \in NameForms(name), a \in Afters}
        \cup Twice(name) \cup {<<>>, T_hi}
PathsOf(name) ==
    {b \o n \o a : b \in {x \in Befores : x # <<>> /\ IsSep(x[1])},
                   n \in NameForms(name), a \in Afters}

Texts == UNION {TextsOf(Basename(home)) : home \in Homes}
Paths == UNION {PathsOf(Basename(home)) : home \in Homes}

\* the arguments of a call, as log holds them
Call(method, text) == [kind |-> method, text |-> text]

\* Anonymizer.text(content)
AnonymizeText(content) ==
    /\ source = "text" /\ pc = "call"
    /\ content \in TextsOf(anonymizer.username)
    /\ log' = Append(log, Call("text", content))
    /\ result' = Some(anonymize_text(content, anonymizer.username,
                                     anonymizer.username_hash, Some(anonymizer.home)))
    /\ pc' = "returned"
    /\ UNCHANGED <<cache, threads, source, anonymizer, include_thinking, messages, metadata, stats,
                   skipped_lines>>

\* Anonymizer.path(file_path): self.text(file_path)
AnonymizePath(file_path) ==
    /\ source = "text" /\ pc = "call"
    /\ file_path \in PathsOf(anonymizer.username)
    /\ log' = Append(log, Call("path", file_path))
    /\ result' = Some(anonymize_text(file_path, anonymizer.username,
                                     anonymizer.username_hash, Some(anonymizer.home)))
    /\ pc' = "returned"
    /\ UNCHANGED <<cache, threads, source, anonymizer, include_thinking, messages, metadata, stats,
                   skipped_lines>>

\* The contents handed to an AnonymizerWrapper, and what its tool may do
\* with a content.
WrapperContents ==
    {None, Some(<<>>), Some(T_hi), Some(T_dana), Some(<<" ">>),
     Some(<<"/","U","s","e","r","s","/","a","l","i","c","e","/","s",".","t","x","t">>),
     Some(<<"t","e","s","t">>), Some(T_path)}
ToolOutcomes(data) ==
    {ToolRaises, ToolReturns(None), ToolReturns(Some(<<>>)),
     ToolReturns(Some(AnonymizerToolRun(data))), ToolReturns(Some(T_ok)),
     ToolReturns(Some(<<"t","e","s","t">>))}

\* the arguments of a call of the wrapper, what its tool did, and whether
\* the tool was run, as log holds them
WrapperCallOf(method, content, outcome) ==
    [kind |-> method, text |-> content, tool |-> outcome, ran |-> RunsTool(content)]

\* AnonymizerWrapper.text(content)
WrapperText(content, outcome) ==
    /\ source = "wrapper" /\ pc = "call"
    /\ log' = Append(log, WrapperCallOf("text", content, outcome))
    /\ result' = Some(AnonymizerWrapperCall(content, outcome))
    /\ pc' = "returned"
    /\ UNCHANGED <<cache, threads, source, anonymizer, include_thinking, messages, metadata, stats,
                   skipped_lines>>

\* AnonymizerWrapper.path(file_path)
WrapperPath(file_path, outcome) ==
    /\ source = "wrapper" /\ pc = "call"
    /\ log' = Append(log, WrapperCallOf("path", file_path, outcome))
    /\ result' = Some(AnonymizerWrapperCall(file_path, outcome))
    /\ pc' = "returned"
    /\ UNCHANGED <<cache, threads, source, anonymizer, include_thinking, messages, metadata, stats,
                   skipped_lines>>

AnonymizerInit ==
    /\ source \in {"text", "wrapper"}
    /\ anonymizer \in (IF source = "text" THEN {Anonymizer(home) : home \in Homes}
                       ELSE {"wrapper"})
    /\ include_thinking = FALSE
    /\ log = <<>>
    /\ messages = <<>>
    /\ metadata = NoMetadata(NoneAtom)
    /\ stats = NoStats
    /\ skipped_lines = 0
    /\ pc = "call"
    /\ result = None
    /\ cache = NoCache
    /\ threads = NoThreads

AnonymizerNext ==
    \/ \E content \in Texts : AnonymizeText(content)
    \/ \E file_path \in Paths : AnonymizePath(file_path)
    \/ \E content \in WrapperContents : \E outcome \in ToolOutcomes(OrElse(content, <<>>)) :
           WrapperText(content, outcome)
    \/ \E file_path \in WrapperContents :
           \E outcome \in ToolOutcomes(OrElse(file_path, <<>>)) :
               WrapperPath(file_path, outcome)

AnonymizerSpec == AnonymizerInit /\ [][AnonymizerNext]_vars

-----------------------------------------------------------------------------
(* dataclaw/anonymizer.py: concurrent calls of anonymize_text              *)

\* caller t calls Anonymizer(home).text(text): anonymize_text up to its
\* first getter
CallAnonymizer(t, home, text) ==
    /\ source = "cache" /\ threads[t].at = "idle"
    /\ home \in HomesOf(t)
    /\ \E c \in {[Idle EXCEPT !.text0 = text, !.text = text,
                              !.username = Basename(home),
                              !.username_hash = _hash_username(Basename(home)),
                              !.home = home]} :
           threads' = [threads EXCEPT ![t] =
               IF text = <<>> \/ c.username = <<>> \/ ~ContainsCI(text, c.username)
               THEN [c EXCEPT !.at = "returned", !.out = Some(text)]
               ELSE [c EXCEPT !.at = "lookup",
                              !.fn = IF Len(c.username) >= 4 THEN "username"
                                     ELSE "home"]]
    /\ UNCHANGED <<cache, source, anonymizer, include_thinking, log, messages,
                   metadata, stats, skipped_lines, pc, result>>

\* lru_cache, the lookup: a hit hands out the cached value and marks the
\* entry as most recently used, a miss goes on to the wrapped function
LookupPattern(t) ==
    /\ source = "cache" /\ threads[t].at = "lookup"
    /\ \E c \in {threads[t]} :
           IF CacheHas(cache[c.fn], KeyOf(c))
           THEN /\ threads' = [threads EXCEPT ![t] =
                        [c EXCEPT !.at = "sub", !.note = "hit",
                                  !.pat = CacheGet(cache[c.fn], KeyOf(c))]]
                /\ cache' = [cache EXCEPT ![c.fn] = CacheTouch(@, KeyOf(c))]
           ELSE /\ threads' = [threads EXCEPT ![t] = [c EXCEPT !.at = "miss"]]
                /\ UNCHANGED cache
    /\ UNCHANGED <<source, anonymizer, include_thinking, log, messages, metadata,
                   stats, skipped_lines, pc, result>>

\* lru_cache after a miss: the wrapped getter compiles the pattern, then the
\* cache is updated
PopulateCache(t) ==
    /\ source = "cache" /\ threads[t].at = "miss"
    /\ \E c \in {threads[t]} :
           /\ threads' = [threads EXCEPT ![t] =
                   [c EXCEPT !.at = "sub", !.pat = Compiled(c.fn, KeyOf(c)),
                             !.note = PutNote(cache[c.fn], KeyOf(c))]]
           /\ cache' = [cache EXCEPT ![c.fn] =
                   CachePut(@, KeyOf(c), Compiled(c.fn, KeyOf(c)))]
    /\ UNCHANGED <<source, anonymizer, include_thinking, log, messages, metadata,
                   stats, skipped_lines, pc, result>>

\* anonymize_text after a getter returned: the username pattern is applied
\* and the text returned; the home pattern is applied and the custom home
\* pattern asked for; the custom home pattern is None and the text returned
Substitute(t) ==
    /\ source = "cache" /\ threads[t].at = "sub"
    /\ \E c \in {threads[t]} :
           threads' = [threads EXCEPT ![t] =
               CASE c.fn = "username" ->
                        [c EXCEPT !.at = "returned",
                                  !.out = Some(PatternSub(c.pat, c.text, c.username_hash))]
                 [] c.fn = "home" ->
                        [c EXCEPT !.at = "lookup", !.fn = "custom", !.pat = NoPattern,
                                  !.note = "none",
                                  !.text = PatternSub(c.pat, c.text, c.username_hash)]
                 [] OTHER -> [c EXCEPT !.at = "returned", !.out = Some(c.text)]]
    /\ UNCHANGED <<cache, source, anonymizer, include_thinking, log, messages,
                   metadata, stats, skipped_lines, pc, result>>

\* the caller has its result and is free for another call
Return(t) ==
    /\ source = "cache" /\ threads[t].at = "returned"
    /\ threads' = [threads EXCEPT ![t] = Idle]
    /\ UNCHANGED <<cache, source, anonymizer, include_thinking, log, messages,
                   metadata, stats, skipped_lines, pc, result>>

CacheInit ==
    /\ source = "cache"
    /\ anonymizer = "engine"
    /\ include_thinking = FALSE
    /\ log = <<>>
    /\ messages = <<>>
    /\ metadata = NoMetadata(NoneAtom)
    /\ stats = NoStats
    /\ skipped_lines = 0
    /\ pc = "call"
    /\ result = None
    /\ cache = NoCache
    /\ threads = NoThreads

CacheNext ==
    \/ \E t \in Threads : \E home \in CacheHomes : \E text \in CacheTexts :
           CallAnonymizer(t, home, text)
    \/ \E t \in Threads : LookupPattern(t)
    \/ \E t \in Threads : PopulateCache(t)
    \/ \E t \in Threads : Substitute(t)
    \/ \E t \in Threads : Return(t)

CacheSpec == CacheInit /\ [][CacheNext]_vars

-----------------------------------------------------------------------------
(* Vocabulary of the properties                                            *)

\* a message with non-empty content, non-empty thinking or a tool use
CarriesSomething(m) ==
    \/ (m.content # None /\ Val(m.content) # <<>>)
    \/ (m.thinking # None /\ Val(m.thinking) # <<>>)
    \/ m.tool_uses # <<>>

\* an optional text that is absent or blank
BlankText(o) == o = None \/ Strip(Val(o)) = <<>>

\* a user or assistant source record that holds no text, no thinking and no
\* tool use at all
BlankRecord(r) ==
    \/ /\ r.kind = "entry"
       /\ r.type \in {"user", "assistant"}
       /\ \/ r.message = "absent"
          \/ r.message = "map" /\ r.content.k = "absent"
          \/ r.message = "map" /\ r.content.k = "str" /\ r.type = "user"
             /\ Strip(r.content.s) = <<>>
          \/ r.message = "map" /\ r.content.k = "list"
             /\ \A i \in DOMAIN r.content.l :
                    /\ r.content.l[i].k = "dict"
                    /\ r.content.l[i].type # "tool_use"
                    /\ BlankText(r.content.l[i].text)
    \/ /\ r.kind = "turn" /\ r.hasId /\ r.stored = "ok"
       /\ r.type \in {1, 2}
       /\ BlankText(r.text)
       /\ (r.thinking.k = "dict" => BlankText(r.thinking.text))
       /\ ToolNameRaw(r) = <<>>

\* how many records of rs satisfy Test
CountOf(rs, Test(_)) == Cardinality({i \in DOMAIN rs : Test(rs[i])})

IsUndecodable(r) == r.kind = "badjson"
IsDecodable(r) == r.kind # "badjson"

\* one iteration of the loop of _parse_session_file on a decodable line
StepOf(r, s, a, it) ==
    CASE r.kind = "entry" -> _process_entry(r, s.messages, s.metadata, s.stats, a, it)
      [] r.kind = "nonmap" -> [s EXCEPT !.raised = TRUE]
      [] OTHER -> s

\* the loop of _parse_session_file over the lines rs, from the state s
RECURSIVE Replay(_, _, _, _)
Replay(rs, s, a, it) ==
    IF rs = <<>> \/ s.raised THEN s
    ELSE Replay(Tail(rs), StepOf(Head(rs), s, a, it), a, it)

\* the messages one source record yields when processed on its own
YieldOf(r, src, a, it) ==
    CASE src = "claude" /\ r.kind = "entry" ->
             _process_entry(r, <<>>, NoMetadata(FileStem), NoStats, a, it).messages
      [] src = "cursor" /\ r.hasId /\ r.stored = "ok" ->
             ParseTurn(r, <<>>, NoMetadata(ComposerId), NoStats, a, it).messages
      [] OTHER -> <<>>

\* the yields of the records rs, in the order of rs
RECURSIVE Yields(_, _, _, _)
Yields(rs, src, a, it) ==
    IF rs = <<>> THEN <<>>
    ELSE YieldOf(Head(rs), src, a, it) \o Yields(Tail(rs), src, a, it)

\* a record with a working directory that is not empty
CarriesCwd(r) == r.kind = "entry" /\ r.cwd # None /\ Val(r.cwd) # <<>>

\* an assistant-typed record of the line log
IsAssistantRecord(r) == r.kind = "entry" /\ r.type = "assistant"

\* an assistant-typed record that carries a model name
CarriesModel(r) == IsAssistantRecord(r) /\ EntryModel(r) # NoneAtom

\* the first record of rs that satisfies Test
FirstOf(rs, Test(_)) ==
    rs[CHOOSE i \in DOMAIN rs : Test(rs[i]) /\ \A j \in 1..(i - 1) : ~Test(rs[j])]

\* reported input plus reported cache-read input tokens of a record
ReportedInput(r) ==
    IF IsAssistantRecord(r)
    THEN CntGet(EntryUsage(r).input_tokens).n
         + CntGet(EntryUsage(r).cache_read_input_tokens).n
    ELSE 0

\* reported output tokens of a record
ReportedOutput(r) ==
    IF IsAssistantRecord(r) THEN CntGet(EntryUsage(r).output_tokens).n ELSE 0

\* the sums of the two over the records rs
RECURSIVE SumInput(_)
SumInput(rs) == IF rs = <<>> THEN 0 ELSE ReportedInput(Head(rs)) + SumInput(Tail(rs))

RECURSIVE SumOutput(_)
SumOutput(rs) ==
    IF rs = <<>> THEN 0 ELSE ReportedOutput(Head(rs)) + SumOutput(Tail(rs))

\* the tool_use segments of a content list, in order
RECURSIVE ToolBlocks(_)
ToolBlocks(blocks) ==
    IF blocks = <<>> THEN <<>>
    ELSE (IF Head(blocks).k = "dict" /\ Head(blocks).type = "tool_use"
          THEN <<Head(blocks)>> ELSE <<>>)
         \o ToolBlocks(Tail(blocks))

\* a tool use whose summary is free text: a bash command, a task prompt, the
\* default branch, or an input that is no mapping
IsFreeTextTool(b) == ~b.input.isdict \/ ToolKey(b.name) \notin ShapedNames

\* redact, then anonymize, then truncate
RedactAnonymizeTruncate(text, a) ==
    Prefix(AnonText(a, redact_text(text)), MAX_TOOL_INPUT_LENGTH)

\* the last line read is an assistant record with tool uses, and its message
\* was appended
LastIsToolRecord ==
    /\ source = "claude" /\ log # <<>> /\ pc # "raised" /\ messages # <<>>
    /\ log[Len(log)].kind = "entry"
    /\ log[Len(log)].type = "assistant"
    /\ log[Len(log)].message = "map"
    /\ log[Len(log)].content.k = "list"
    /\ ToolBlocks(log[Len(log)].content.l) # <<>>

-----------------------------------------------------------------------------
(* Properties                                                              *)

\* C1: in both parsers every entry of messages carries non-empty content,
\* non-empty thinking or a non-empty tool_uses list, and a user or assistant
\* record that holds none of the three appends nothing: there are at most as
\* many messages as records that are not blank.
C1_MessagesCarrySomething ==
    /\ \A i \in DOMAIN messages : CarriesSomething(messages[i])
    /\ Len(messages) + CountOf(log, BlankRecord) <= Len(log)

\* C1 witness: two records were processed, one of them blank, and exactly
\* one message was appended.
C1_BlankRecordDropped ==
    /\ Len(log) = 2 /\ Len(messages) = 1
    /\ CountOf(log, BlankRecord) = 1
    /\ BlankRecord(log[1])

\* C2: a line that fails decoding adds one to skipped_lines and changes
\* nothing else, and the lines after it are processed: skipped_lines is the
\* number of undecodable lines read, messages, metadata and stats are those
\* of the decodable lines alone, and a returned session reports both.
C2_UndecodableLinesOnlyCounted ==
    source = "claude" =>
        /\ skipped_lines = CountOf(log, IsUndecodable)
        /\ \E s \in {Replay(SelectSeq(log, IsDecodable),
                            Processed(<<>>, NoMetadata(FileStem), NoStats, FALSE),
                            anonymizer, include_thinking)} :
               /\ messages = s.messages
               /\ metadata = s.metadata
               /\ stats = s.stats
               /\ (pc = "raised") = s.raised
        /\ (result # None =>
               /\ Val(result).stats.skipped_lines = CountOf(log, IsUndecodable)
               /\ Val(result).messages = messages)

\* C2 witness: an undecodable line, then a valid user line, and the session
\* returned with one message and skipped_lines = 1.
C2_OneMessageOneSkipped ==
    /\ source = "claude" /\ pc = "returned" /\ result # None
    /\ Len(log) = 2
    /\ log[1].kind = "badjson"
    /\ log[2].kind = "entry" /\ log[2].type = "user"
    /\ Len(Val(result).messages) = 1
    /\ Val(result).stats.skipped_lines = 1

\* C3: in the line-log parser no malformed record makes an error propagate
\* out of the parse of the session.
C3_NoErrorPropagates == source = "claude" => pc # "raised"

\* C4: in the line-log parser start_time is the timestamp of the first
\* message of messages, whatever its role.
C4_StartTimeOfFirstMessage ==
    source = "claude" /\ messages # <<>> =>
        metadata.start_time = messages[1].timestamp

\* C5: in the line-log parser end_time is the timestamp (None when absent) of
\* the message appended last, and None while there is no message; a record
\* that appends nothing leaves it alone.
C5_EndTimeOfLastMessage ==
    source = "claude" =>
        metadata.end_time = IF messages = <<>> THEN NoneAtom
                            ELSE messages[Len(messages)].timestamp

\* C5 witness: two messages out of chronological order; end_time is the
\* earlier timestamp, that of the message processed last.
C5_OutOfOrderInput ==
    /\ source = "claude" /\ Len(messages) = 2
    /\ messages[1].timestamp = TS2
    /\ messages[2].timestamp = TS1
    /\ metadata.end_time = TS1

\* C6: in both parsers every step leaves the old messages list as a prefix
\* of the new one, and the list is, in the order of the source records, what
\* each record yields.
C6_AppendOnlyInRecordOrder ==
    [][/\ IsPrefix(messages, messages')
       /\ messages' = Yields(log', source', anonymizer', include_thinking')]_vars

\* C6 witness: two records, an assistant one and then a user one, and their
\* two messages in that order.
C6_TwoMessagesInOrder ==
    /\ Len(log) = 2 /\ Len(messages) = 2
    /\ messages[1].role = "assistant"
    /\ messages[2].role = "user"
    /\ messages[1].timestamp # messages[2].timestamp

\* C7: cwd, git_branch, the tool version and the session id are those of the
\* first record with a working directory (a cwd that is not empty), also
\* where that record leaves a field absent; without such a record they are
\* as initialised.
C7_EnvironmentOfFirstCwdRecord ==
    source = "claude" =>
        IF \E i \in DOMAIN log : CarriesCwd(log[i])
        THEN /\ metadata.cwd = Some(AnonText(anonymizer, Val(FirstOf(log, CarriesCwd).cwd)))
             /\ metadata.git_branch = FirstOf(log, CarriesCwd).gitBranch
             /\ metadata.claude_version = FirstOf(log, CarriesCwd).version
             /\ metadata.session_id =
                    IF FirstOf(log, CarriesCwd).sessionId = NoneAtom THEN FileStem
                    ELSE FirstOf(log, CarriesCwd).sessionId
        ELSE /\ metadata.cwd = None
             /\ metadata.git_branch = NoneAtom
             /\ metadata.claude_version = NoneAtom
             /\ metadata.session_id = FileStem

\* C7 witness: the first record with a cwd has no branch, version or session
\* id, a later record with a cwd has all three, and the three are still
\* absent.
C7_LaterRecordIgnored ==
    /\ source = "claude" /\ Len(log) = 2
    /\ CarriesCwd(log[1]) /\ log[1].gitBranch = NoneAtom
    /\ CarriesCwd(log[2]) /\ log[2].gitBranch # NoneAtom
    /\ log[2].sessionId # NoneAtom
    /\ metadata.git_branch = NoneAtom
    /\ metadata.session_id = FileStem

\* C8: in the line-log parser input_tokens is the sum over all assistant
\* records read of reported input plus cache-read input tokens, and
\* output_tokens the sum of their reported output tokens.
C8_TokensOfEveryAssistantRecord ==
    source = "claude" /\ pc # "raised" =>
        /\ stats.input_tokens = SumInput(log)
        /\ stats.output_tokens = SumOutput(log)

\* C9: in the line-log parser the model is the model name of the first
\* assistant record read that carries one.
C9_ModelOfFirstAssistantRecord ==
    source = "claude" /\ (\E i \in DOMAIN log : CarriesModel(log[i])) =>
        metadata.model = EntryModel(FirstOf(log, CarriesModel))

\* C10: every free-text tool summary is its text redacted, then anonymized,
\* then truncated.
C10_RedactAnonymizeTruncate ==
    LastIsToolRecord =>
        \A j \in DOMAIN ToolBlocks(log[Len(log)].content.l) :
            IsFreeTextTool(ToolBlocks(log[Len(log)].content.l)[j]) =>
                messages[Len(messages)].tool_uses[j].input =
                    RedactAnonymizeTruncate(
                        FreeText(ToolKey(ToolBlocks(log[Len(log)].content.l)[j].name),
                                 ToolBlocks(log[Len(log)].content.l)[j].input),
                        anonymizer)

\* C11: every tool-input summary the line-log parser emits is at most
\* MAX_TOOL_INPUT_LENGTH characters long.
C11_SummaryBounded ==
    source = "claude" =>
        \A i \in DOMAIN messages :
            \A j \in DOMAIN messages[i].tool_uses :
                Len(messages[i].tool_uses[j].input) <= MAX_TOOL_INPUT_LENGTH

HasPayload(h) == h.hasId /\ h.stored = "ok"

\* the loop of parse_session over the headers hs, all with a payload, from
\* the state s
RECURSIVE ReplayTurns(_, _, _, _)
ReplayTurns(hs, s, a, it) ==
    IF hs = <<>> THEN s
    ELSE ReplayTurns(Tail(hs),
                     ParseTurn(Head(hs), s.messages, s.metadata, s.stats, a, it),
                     a, it)

\* C13: in the key-value parser a header reference without a payload raises
\* nothing, adds no message and changes no counter, and messages, stats and
\* metadata are those of the header with such references left out.
C13_MissingPayloadSkipped ==
    source = "cursor" /\ pc \in {"loop", "returned"} =>
        \E s \in {ReplayTurns(SelectSeq(log, HasPayload),
                              Parsed(<<>>, NoMetadata(ComposerId), NoStats),
                              anonymizer, include_thinking)} :
            /\ messages = s.messages
            /\ stats = s.stats
            /\ (pc = "loop" => metadata = s.metadata)
            /\ (pc = "returned" /\ result # None =>
                   Val(result).messages = s.messages)

\* C13 witness: the first of two header references has no payload in the
\* store, the second yields a message, and the session was returned with
\* that one message.
C13_SessionOmitsMissingTurn ==
    /\ source = "cursor" /\ pc = "returned" /\ result # None
    /\ Len(log) = 2
    /\ log[1].hasId /\ log[1].stored = "missing"
    /\ HasPayload(log[2])
    /\ Len(Val(result).messages) = 1

\* whether the payload of h carries a token-count record
CarriesTokenCount(h) == HasPayload(h) /\ h.tokenCount.k = "dict"

\* the coerced input and output counts of the turns of hs that carry a
\* token-count record
RECURSIVE SumTurnInput(_)
SumTurnInput(hs) ==
    IF hs = <<>> THEN 0
    ELSE (IF CarriesTokenCount(Head(hs)) THEN _safe_int(Head(hs).tokenCount.inputTokens)
          ELSE 0) + SumTurnInput(Tail(hs))

RECURSIVE SumTurnOutput(_)
SumTurnOutput(hs) ==
    IF hs = <<>> THEN 0
    ELSE (IF CarriesTokenCount(Head(hs)) THEN _safe_int(Head(hs).tokenCount.outputTokens)
          ELSE 0) + SumTurnOutput(Tail(hs))

\* C14: in the key-value parser input_tokens and output_tokens are the sums
\* of the coerced token counts over every header-referenced turn whose
\* payload carries a token-count record, whatever the turn's role or text.
C14_TokensOfEveryTurn ==
    source = "cursor" /\ pc \in {"loop", "returned"} =>
        /\ stats.input_tokens = SumTurnInput(log)
        /\ stats.output_tokens = SumTurnOutput(log)

\* whether the payload of h carries a workspace URI, a non-blank model name
CarriesUri(h) == h.workspaceUris.k = "list" /\ h.workspaceUris.first # <<>>
CarriesModelName(h) == h.modelInfo.k = "dict"

\* cwd and model as the first of the turns hs that carries them gives them;
\* ended is whether the loop over the headers is over
FirstCwd(hs, a) ==
    IF hs = <<>> THEN None
    ELSE Some(AnonText(a, StripFileScheme(Head(hs).workspaceUris.first)))
FirstModel(hs, ended) ==
    IF hs # <<>> THEN Head(hs).modelInfo.name
    ELSE IF ended THEN "cursor-unknown" ELSE NoneAtom

\* C15: in the key-value parser cwd is that of the first turn with payload
\* that carries a workspace URI and model that of the first turn that carries
\* a non-blank model name, whatever the turns' roles and whatever follows
\* them, and a session returned without any model name has the model
\* "cursor-unknown".
C15_FirstSeenWins ==
    source = "cursor" /\ pc \in {"loop", "returned"} =>
        \E p \in {SelectSeq(log, HasPayload)} :
            /\ metadata.cwd = FirstCwd(SelectSeq(p, CarriesUri), anonymizer)
            /\ metadata.model = FirstModel(SelectSeq(p, CarriesModelName),
                                           pc = "returned" /\ result # None)
            /\ (pc = "returned" /\ result # None => metadata.model # NoneAtom)

\* C15 witness: an assistant turn that yields no message carries a URI and a
\* model name, a user turn after it carries others, and the returned session
\* has the cwd and the model of the first.
C15_LaterTurnIgnored ==
    /\ source = "cursor" /\ pc = "returned" /\ result # None
    /\ Len(log) = 2 /\ HasPayload(log[1]) /\ HasPayload(log[2])
    /\ log[1].type = 2 /\ log[2].type = 1
    /\ CarriesUri(log[1]) /\ CarriesUri(log[2])
    /\ CarriesModelName(log[1]) /\ CarriesModelName(log[2])
    /\ log[1].modelInfo.name # log[2].modelInfo.name
    /\ log[1].workspaceUris.first # log[2].workspaceUris.first
    /\ Len(messages) = 1
    /\ metadata.model = log[1].modelInfo.name
    /\ metadata.cwd = Some(log[1].workspaceUris.first)

\* C16: a store query of parse_session (the header lookup or the bulk fetch)
\* that fails with a storage error is caught, and parse_session returns no
\* session: the error never leaves parse_session.
C16_StorageErrorCaught ==
    source = "cursor" => pc # "raised"

\* name stands at position i of t as a whole token: ignoring case, with no
\* letter or digit right before or right after it
WholeTokenAt(t, i, name) ==
    /\ MatchAt(t, i, name)
    /\ (i = 1 \/ ~IsAlnum(t[i - 1]))
    /\ (i + Len(name) > Len(t) \/ ~IsAlnum(t[i + Len(name)]))

\* name stands at position i of t as a bare word in prose: between blanks or
\* the ends of the text
ProseWordAt(t, i, name) ==
    /\ MatchAt(t, i, name)
    /\ (i = 1 \/ IsSpace(t[i - 1]))
    /\ (i + Len(name) > Len(t) \/ IsSpace(t[i + Len(name)]))

\* name stands at position u of t directly after a home marker: a run of
\* /, \ or -, then Users or home, then another such run, and is followed by
\* no letter or digit
HomeAnchoredAt(t, u, name) ==
    /\ MatchAt(t, u, name)
    /\ (u + Len(name) > Len(t) \/ ~IsAlnum(t[u + Len(name)]))
    /\ \E a \in 2..(u - 1) : \E b \in (a + 1)..(u - 1) :
           /\ IsSep(t[a - 1])
           /\ \E m \in HomeMarkers : Len(m) = b - a /\ MatchAt(t, a, m)
           /\ \A k \in b..(u - 1) : IsSep(t[k])

\* out is t with the n characters at each position of occ replaced by hash
\* and every other character unchanged (the positions do not overlap)
ReplacedAt(t, occ, n, hash, out) ==
    /\ Len(out) = Len(t) + Cardinality(occ) * (Len(hash) - n)
    /\ \A i \in 1..Len(t) :
           \E at \in {i + Cardinality({j \in occ : j < i}) * (Len(hash) - n)} :
               IF i \in occ THEN SubSeq(out, at, at + Len(hash) - 1) = hash
               ELSE (\E j \in occ : j <= i /\ i < j + n) \/ out[at] = t[i]

\* the text of the anonymizer call made, and what it returned
CallText == log[1].text
CallResult == Val(result)

\* C17: anonymize_text replaces a username of 4 or more characters that
\* stands as a bare word in prose by the hash; it leaves a username of fewer
\* than 4 characters that stands as a bare word in prose untouched, but
\* replaces it where it follows a home marker and is followed by no letter or
\* digit, and keeps the marker before it.
C17_ShortNameOnlyAfterHomeMarker ==
    source = "text" /\ pc = "returned" =>
        \E name \in {anonymizer.username} :
            IF Len(name) < 4
            THEN ReplacedAt(CallText,
                            {u \in 1..Len(CallText) : HomeAnchoredAt(CallText, u, name)},
                            Len(name), anonymizer.username_hash, CallResult)
            ELSE \A i \in 1..Len(CallText) :
                     ProseWordAt(CallText, i, name) =>
                         \E at \in {i + Cardinality({j \in 1..(i - 1) :
                                                        WholeTokenAt(CallText, j, name)})
                                           * (Len(anonymizer.username_hash) - Len(name))} :
                             SubSeq(CallResult, at,
                                    at + Len(anonymizer.username_hash) - 1)
                                 = anonymizer.username_hash

\* C17 witness: the short name "al" stood once as a bare word and once after
\* "/Users/", and only the second was replaced.
C17_ProseKeptPathReplaced ==
    /\ source = "text" /\ pc = "returned"
    /\ anonymizer.username = <<"a","l">>
    /\ CallText = <<"a","l"," ","/","U","s","e","r","s","/","a","l">>
    /\ CallResult = <<"a","l"," ","/","U","s","e","r","s","/">>
                        \o <<"u","s","e","r","_","6","3","5","1","8","2","5","0">>

\* the texts of the examples
T_alice == <<"a","l","i","c","e">>
T_main_py == <<"/","p","r","o","j","e","c","t","/","m","a","i","n",".","p","y">>
T_myproject ==
    <<"-","D","o","c","u","m","e","n","t","s","-","m","y","p","r","o","j","e","c","t">>

\* C18: for a username of 4 or more characters anonymize_text and
\* anonymize_path return the input with every occurrence of the username,
\* ignoring case, that has no letter or digit right before or right after it
\* replaced by the hash and every other character unchanged; occurrences
\* joined to their neighbours by /, \, - or _ are among them, as in
\* "/Users/alice/project/main.py" and "-Users-alice-Documents-myproject".
\* The only whole-token occurrences left are those a hash token starts with.
C18_EveryWholeTokenReplaced ==
    source = "text" /\ pc = "returned" /\ Len(anonymizer.username) >= 4 =>
        \E name \in {anonymizer.username} : \E hash \in {anonymizer.username_hash} :
            /\ ReplacedAt(CallText,
                          {i \in 1..Len(CallText) : WholeTokenAt(CallText, i, name)},
                          Len(name), hash, CallResult)
            /\ \A i \in 1..Len(CallResult) :
                   WholeTokenAt(CallResult, i, name)
                       => /\ IsPrefix(name, hash)
                          /\ SubSeq(CallResult, i, i + Len(hash) - 1) = hash
            /\ (name = T_alice =>
                  /\ (CallText = <<"/","U","s","e","r","s","/">> \o T_alice \o T_main_py
                         => CallResult = <<"/","U","s","e","r","s","/">> \o hash \o T_main_py)
                  /\ (CallText = <<"-","U","s","e","r","s","-">> \o T_alice \o T_myproject
                         => CallResult = <<"-","U","s","e","r","s","-">> \o hash \o T_myproject)
                  /\ (CallText \in {UpperText(T_alice), Capitalize(T_alice)}
                         => CallResult = hash))

\* C18 witness: anonymize_path was called on "/Users/alice/project/main.py"
\* for the user alice and returned the path with the hash in alice's place.
C18_PathOfAlice ==
    /\ source = "text" /\ pc = "returned"
    /\ anonymizer.username = T_alice
    /\ log[1].kind = "path"
    /\ CallText = <<"/","U","s","e","r","s","/">> \o T_alice \o T_main_py
    /\ CallResult = <<"/","U","s","e","r","s","/">>
                        \o <<"u","s","e","r","_","2","b","d","8","0","6","c","9">>
                        \o T_main_py

\* a message that holds thinking and nothing else
ThinkingOnly(m) == m.thinking # None /\ m.content = None /\ m.tool_uses = <<>>
HoldsMoreThanThinking(m) == ~ThinkingOnly(m)

\* the messages ms with their thinking fields dropped
WithoutThinking(ms) == [i \in DOMAIN ms |-> [ms[i] EXCEPT !.thinking = None]]

\* a step that, with include_thinking false, leaves no thinking field and no
\* thinking text in a content field, and adds for the record read the
\* messages that include_thinking true gives for it, without the
\* thinking-only ones and without their thinking fields
StepWithoutThinking ==
    source \in {"claude", "cursor"} /\ ~include_thinking =>
        /\ \A i \in DOMAIN messages' :
               /\ messages'[i].thinking = None
               /\ (messages'[i].content # None =>
                      ~ContainsCI(Val(messages'[i].content), T_hm))
        /\ messages' =
               IF log' = log THEN messages
               ELSE messages \o WithoutThinking(
                        SelectSeq(YieldOf(log'[Len(log')], source, anonymizer, TRUE),
                                  HoldsMoreThanThinking))

\* C19: with include_thinking false no message of either parser has a
\* thinking field and the thinking text is in no content field; a record
\* whose only content is thinking adds no message, and the messages are
\* those that include_thinking true gives, without the thinking-only ones
\* and without their thinking fields.
C19_ThinkingOnlyOnOptIn == [][StepWithoutThinking]_vars

\* C19 witness: the line parser, without include_thinking, read a record
\* that holds only thinking and then a record with text and thinking, and
\* returned a session with the one message of the second.
C19_ThinkingRecordDropped ==
    /\ source = "claude" /\ ~include_thinking /\ pc = "returned" /\ result # None
    /\ Len(log) = 2
    /\ \E first \in {YieldOf(log[1], source, anonymizer, TRUE)} :
           Len(first) = 1 /\ ThinkingOnly(first[1])
    /\ \E second \in {YieldOf(log[2], source, anonymizer, TRUE)} :
           Len(second) = 1 /\ second[1].thinking # None /\ second[1].content # None
    /\ Len(Val(result).messages) = 1

\* an optional text that is None or empty
Falsy(o) == o = None \/ Val(o) = <<>>

\* C20: AnonymizerWrapper.text and AnonymizerWrapper.path never raise; for a
\* None or empty input they return the input without running the tool; when
\* the tool raises or gives a None or empty result they return the input
\* unchanged; otherwise they return the tool's result.
C20_WrapperFallsBackToInput ==
    source = "wrapper" =>
        /\ pc \in {"call", "returned"}
        /\ (pc = "returned" =>
               \E call \in {log[1]} :
                   /\ call.ran = ~Falsy(call.text)
                   /\ Val(result) = IF Falsy(call.text) \/ call.tool.raised
                                       \/ Falsy(call.tool.result)
                                    THEN call.text
                                    ELSE call.tool.result)

\* C20 witness: AnonymizerWrapper.path was called on a path, its tool raised,
\* and the path came back unchanged.
C20_ToolRaisedPathKept ==
    /\ source = "wrapper" /\ pc = "returned"
    /\ log[1].kind = "path"
    /\ log[1].text = Some(<<"/","U","s","e","r","s","/","a","l","i","c","e","/","s",".","t","x","t">>)
    /\ log[1].tool.raised
    /\ Val(result) = log[1].text

-----------------------------------------------------------------------------
(* dataclaw/parser.py: _build_project_name                                 *)

\* str.replace(c, d)
ReplaceChar(t, c, d) == [i \in DOMAIN t |-> IF t[i] = c THEN d ELSE t[i]]

\* str.lstrip(c), str.rstrip(c) and str.strip(c)
RECURSIVE LStripChar(_, _)
LStripChar(t, c) == IF t # <<>> /\ Head(t) = c THEN LStripChar(Tail(t), c) ELSE t
RECURSIVE RStripChar(_, _)
RStripChar(t, c) ==
    IF t # <<>> /\ t[Len(t)] = c THEN RStripChar(SubSeq(t, 1, Len(t) - 1), c) ELSE t
StripChar(t, c) == RStripChar(LStripChar(t, c), c)

\* str.split(c)
RECURSIVE Split(_, _)
Split(t, c) ==
    IF FindFrom(t, c, 1) = 0 THEN <<t>>
    ELSE <<SubSeq(t, 1, FindFrom(t, c, 1) - 1)>> \o Split(Suffix(t, FindFrom(t, c, 1) + 1), c)

T_Users == <<"U","s","e","r","s">>
T_home == <<"h","o","m","e">>
common_dirs ==
    {<<"D","o","c","u","m","e","n","t","s">>, <<"D","o","w","n","l","o","a","d","s">>,
     <<"D","e","s","k","t","o","p">>}

\* parts: the segments of the name decoded to a path
NameParts(dir_name) == Split(LStripChar(ReplaceChar(dir_name, "-", "/"), "/"), "/")

\* meaningful: the segments after the home marker, the username and, under
\* Users, one container directory
Meaningful(parts) ==
    IF Len(parts) >= 2 /\ parts[1] = T_Users
    THEN IF Len(parts) >= 4 /\ parts[3] \in common_dirs
         THEN SubSeq(parts, 4, Len(parts))
         ELSE IF Len(parts) >= 3 /\ parts[3] \notin common_dirs
              THEN SubSeq(parts, 3, Len(parts))
              ELSE <<>>
    ELSE IF Len(parts) >= 2 /\ parts[1] = T_home
         THEN IF Len(parts) > 2 THEN SubSeq(parts, 3, Len(parts)) ELSE <<>>
         ELSE parts

\* the label when a meaningful tail remains
TailLabel(dir_name, segments, prefix_parts) ==
    IF Join(<<"-">>, SubSeq(segments, prefix_parts + 1, Len(segments))) # <<>>
    THEN Join(<<"-">>, SubSeq(segments, prefix_parts + 1, Len(segments)))
    ELSE dir_name

\* the label when no meaningful tail remains
PlaceholderLabel(dir_name, parts) ==
    IF Len(parts) = 2 /\ parts[1] \in {T_Users, T_home}
    THEN <<"~","h","o","m","e">>
    ELSE IF Len(parts) = 3 /\ parts[1] \in {T_Users, T_home} /\ parts[3] \in common_dirs
         THEN <<"~">> \o parts[3]
         ELSE IF StripChar(dir_name, "-") # <<>> THEN StripChar(dir_name, "-")
              ELSE <<"u","n","k","n","o","w","n">>

ProjectLabel(dir_name, parts, meaningful) ==
    IF meaningful # <<>>
    THEN TailLabel(dir_name, Split(LStripChar(dir_name, "-"), "-"),
                   Len(parts) - Len(meaningful))
    ELSE PlaceholderLabel(dir_name, parts)

\* _build_project_name(dir_name)
_build_project_name(dir_name) ==
    ProjectLabel(dir_name, NameParts(dir_name), Meaningful(NameParts(dir_name)))

\* The project directory names of the model.
DirNames ==
    { <<"-","U","s","e","r","s","-","a","l","i","c","e">>,
      <<"-","U","s","e","r","s","-","a","l","i","c","e","-","m","y","a","p","p">>,
      <<"-","U","s","e","r","s","-","a","l","i","c","e","-","m","y","-","a","p","p">>,
      <<"-","U","s","e","r","s","-","a","l","i","c","e","-","D","o","c","u","m","e","n","t","s">>,
      <<"-","U","s","e","r","s","-","a","l","i","c","e","-","D","o","c","u","m","e","n","t","s","-","m","y","a","p","p">>,
      <<"-","U","s","e","r","s","-","a","l","i","c","e","-","D","o","c","u","m","e","n","t","s","-","m","y","-","a","p","p">>,
      <<"-","U","s","e","r","s","-","a","l","i","c","e","-","D","e","s","k","t","o","p">>,
      <<"-","U","s","e","r","s","-","a","l","i","c","e","-","D","e","s","k","t","o","p","-","m","y","a","p","p">>,
      <<"-","U","s","e","r","s","-","a","l","i","c","e","-","D","e","s","k","t","o","p","-","m","y","-","a","p","p">>,
      <<"-","U","s","e","r","s","-","b","o","b">>,
      <<"-","U","s","e","r","s","-","b","o","b","-","m","y","a","p","p">>,
      <<"-","U","s","e","r","s","-","b","o","b","-","D","o","c","u","m","e","n","t","s">>,
      <<"-","U","s","e","r","s","-","b","o","b","-","D","o","c","u","m","e","n","t","s","-","m","y","a","p","p">>,
      <<"-","h","o","m","e","-","a","l","i","c","e">>,
      <<"-","h","o","m","e","-","a","l","i","c","e","-","m","y","a","p","p">>,
      <<"-","h","o","m","e","-","a","l","i","c","e","-","m","y","-","a","p","p">>,
      <<"-","h","o","m","e","-","a","l","i","c","e","-","D","o","c","u","m","e","n","t","s">>,
      <<"-","h","o","m","e","-","a","l","i","c","e","-","D","o","c","u","m","e","n","t","s","-","m","y","a","p","p">>,
      <<"-","h","o","m","e","-","a","l","i","c","e","-","D","o","c","u","m","e","n","t","s","-","m","y","-","a","p","p">>,
      <<"-","h","o","m","e","-","a","l","i","c","e","-","D","e","s","k","t","o","p">>,
      <<"-","h","o","m","e","-","a","l","i","c","e","-","D","e","s","k","t","o","p","-","m","y","a","p","p">>,
      <<"-","h","o","m","e","-","a","l","i","c","e","-","D","e","s","k","t","o","p","-","m","y","-","a","p","p">>,
      <<"-","h","o","m","e","-","b","o","b">>,
      <<"-","h","o","m","e","-","b","o","b","-","m","y","a","p","p">>,
      <<"-","h","o","m","e","-","b","o","b","-","D","o","c","u","m","e","n","t","s">>,
      <<"-","h","o","m","e","-","b","o","b","-","D","o","c","u","m","e","n","t","s","-","m","y","a","p","p">>,
      <<"-","u","s","r","-","a","l","i","c","e">>,
      <<"-","u","s","r","-","a","l","i","c","e","-","m","y","a","p","p">>,
      <<"-","u","s","r","-","a","l","i","c","e","-","m","y","-","a","p","p">>,
      <<"-","u","s","r","-","a","l","i","c","e","-","D","o","c","u","m","e","n","t","s">>,
      <<"-","u","s","r","-","a","l","i","c","e","-","D","o","c","u","m","e","n","t","s","-","m","y","a","p","p">>,
      <<"-","u","s","r","-","a","l","i","c","e","-","D","o","c","u","m","e","n","t","s","-","m","y","-","a","p","p">>,
      <<"-","u","s","r","-","a","l","i","c","e","-","D","e","s","k","t","o","p">>,
      <<"-","u","s","r","-","a","l","i","c","e","-","D","e","s","k","t","o","p","-","m","y","a","p","p">>,
      <<"-","u","s","r","-","a","l","i","c","e","-","D","e","s","k","t","o","p","-","m","y","-","a","p","p">>,
      <<"-","u","s","r","-","b","o","b">>,
      <<"-","u","s","r","-","b","o","b","-","m","y","a","p","p">>,
      <<"-","u","s","r","-","b","o","b","-","D","o","c","u","m","e","n","t","s">>,
      <<"-","u","s","r","-","b","o","b","-","D","o","c","u","m","e","n","t","s","-","m","y","a","p","p">>,
      <<"s","t","a","n","d","a","l","o","n","e">>, <<>>, <<"-">>,
      <<"-","U","s","e","r","s","-","a","l","i","c","e","-">>,
      <<"U","s","e","r","s">>, <<"-","h","o","m","e">>,
      <<"-","-","U","s","e","r","s","-","a","l","i","c","e","-","x">>,
      <<"-","U","s","e","r","s","-","a","l","i","c","e","-","D","o","c","u","m","e","n","t","s","-","D","e","s","k","t","o","p","-","x">>,
      <<"-","h","o","m","e","-","b","o","b","-","p","r","o","j","e","c","t">>,
      <<"U","s","e","r","s","-","a","l","i","c","e","-","x">>,
      <<"-","U","s","e","r","s","-","a","l","i","c","e","-","D","o","w","n","l","o","a","d","s">> }


-----------------------------------------------------------------------------
(* dataclaw/parser.py: parse_project_sessions                              *)

\* A faulty variant of EffectiveAnonymizer that always uses the anonymizer
\* the caller supplied.
SuppliedAnonymizer(a, anonymize) == a

\* effective_anonymizer = anonymizer if anonymize else PassthroughAnonymizer()
EffectiveAnonymizer(a, anonymize) == IF anonymize THEN a ELSE "passthrough"

\* A session file: its stem, its lines, and whether opening or reading it
\* fails with OSError.
SessionFile(stem, lines, fails) == [stem |-> stem, lines |-> lines, fails |-> fails]

\* F(v), with v computed once
With(v, F(_)) == CHOOSE y \in {F(x) : x \in {v}} : TRUE

\* the loop of _parse_session_file over the decodable lines rs, from s
RECURSIVE ReadLines(_, _, _, _)
ReadLines(rs, s, a, it) ==
    IF rs = <<>> \/ s.raised THEN s
    ELSE With(StepOf(Head(rs), s, a, it), LAMBDA n : ReadLines(Tail(rs), n, a, it))

\* what _parse_session_file does once the file is read into s
SessionOrNone(s, skipped) ==
    IF s.raised THEN Raised
    ELSE IF s.messages = <<>> THEN Returned(None)
    ELSE Returned(Some(SessionDict(s.metadata, s.messages, s.stats, skipped)))

\* _parse_session_file(filepath, anonymizer, include_thinking) as a function
\* of the file: it raises, returns None, or returns the session dict
ParseSessionFile(file, a, it) ==
    IF file.fails THEN Returned(None)
    ELSE With(ReadLines(SelectSeq(file.lines, IsDecodable),
                        Processed(<<>>, NoMetadata(file.stem), NoStats, FALSE), a, it),
              LAMBDA s : SessionOrNone(s, CountOf(file.lines, IsUndecodable)))

\* parsed["project"] = _build_project_name(project_dir_name)
WithProject(parsed, project) ==
    [session_id |-> parsed.session_id, model |-> parsed.model,
     git_branch |-> parsed.git_branch, start_time |-> parsed.start_time,
     end_time |-> parsed.end_time, messages |-> parsed.messages,
     stats |-> parsed.stats, project |-> project]

\* sessions.append(parsed) when parsed and parsed["messages"]
Appended(parsed, project, rest) ==
    IF rest.raised THEN Raised
    ELSE Returned((IF parsed.value # None /\ Val(parsed.value).messages # <<>>
                   THEN <<WithProject(Val(parsed.value), project)>> ELSE <<>>)
                  \o rest.value)

\* the loop of parse_project_sessions over the sorted session files
RECURSIVE ParseFiles(_, _, _, _)
ParseFiles(files, project, a, it) ==
    IF files = <<>> THEN Returned(<<>>)
    ELSE With(ParseSessionFile(Head(files), a, it),
              LAMBDA parsed :
                  IF parsed.raised THEN Raised
                  ELSE With(ParseFiles(Tail(files), project, a, it),
                            LAMBDA rest : Appended(parsed, project, rest)))

\* parse_project_sessions(project_dir_name, anonymizer, include_thinking,
\* claude_dir, anonymize); project is None when the project directory does
\* not exist, else its session files in the order of their names
parse_project_sessions(project_dir_name, project, a, it, anonymize) ==
    IF project = None THEN Returned(<<>>)
    ELSE With(_build_project_name(project_dir_name),
              LAMBDA name : ParseFiles(Val(project), name,
                                       EffectiveAnonymizer(a, anonymize), it))

-----------------------------------------------------------------------------
(* dataclaw/search.py                                                      *)

\* DEFAULT_MAX_CONTENT_LENGTH (20000 in the source)
DEFAULT_MAX_CONTENT_LENGTH == 3

\* the cut of a snippet in search(): r.get("snippet", "")[:200]
SnippetLength == 8

\* [msg["content"] for msg in session["messages"] if msg.get("content")]
RECURSIVE ContentParts(_)
ContentParts(msgs) ==
    IF msgs = <<>> THEN <<>>
    ELSE (IF Head(msgs).content # None /\ Val(Head(msgs).content) # <<>>
          THEN <<Val(Head(msgs).content)>> ELSE <<>>) \o ContentParts(Tail(msgs))

\* start_time[:10] if start_time else "unknown"
DateStr(start_time) ==
    CASE start_time = NoneAtom -> "unknown"
      [] start_time \in {TS1, TS2} -> "2024-01-01"
      [] OTHER -> "1970-01-01"

\* _session_to_document(session)
_session_to_document(session) ==
    [id |-> session.session_id,
     title |-> <<session.project, DateStr(session.start_time)>>,
     content |-> Prefix(Join(<<" ">>, ContentParts(session.messages)),
                        DEFAULT_MAX_CONTENT_LENGTH * 4),
     project |-> session.project,
     start_time |-> session.start_time,
     session_id |-> session.session_id]

\* the documents of the sessions of one project
Documents(sessions) ==
    [documents |-> SelectSeq([i \in DOMAIN sessions |->
                                 _session_to_document(sessions[i])],
                             LAMBDA doc : doc.id # NoneAtom /\ doc.content # <<>>),
     errors |-> 0]

\* build_index for one project: the documents handed to the index, and
\* whether indexing the project was recorded as an error
IndexProject(project_dir_name, project) ==
    With(parse_project_sessions(project_dir_name, project, "passthrough", TRUE, FALSE),
         LAMBDA sessions : IF sessions.raised THEN [documents |-> <<>>, errors |-> 1]
                           ELSE Documents(sessions.value))

\* formatted results of search(): the snippet of each result cut, then, with
\* anonymize, handed to the display AnonymizerWrapper
FormatResults(results, outcomes, anonymize) ==
    [i \in DOMAIN results |->
        [id |-> results[i].id,
         snippet |-> IF anonymize
                     THEN Val(AnonymizerWrapperCall(
                              Some(Prefix(OrElse(results[i].snippet, <<>>), SnippetLength)),
                              outcomes[i]))
                     ELSE Prefix(OrElse(results[i].snippet, <<>>), SnippetLength)]]

\* build_index over the projects found: the documents handed to the index
\* and the number of projects recorded as errors
RECURSIVE IndexProjects(_)
IndexProjects(all_projects) ==
    IF all_projects = <<>> THEN [documents |-> <<>>, errors |-> 0]
    ELSE With(IndexProject(Head(all_projects).dir_name, Head(all_projects).project),
              LAMBDA first :
                  With(IndexProjects(Tail(all_projects)),
                       LAMBDA rest : [documents |-> first.documents \o rest.documents,
                                      errors |-> first.errors + rest.errors]))

-----------------------------------------------------------------------------
(* The projects, search results and calls of the model                     *)

T_Read == <<"R","e","a","d">>

\* Lines of a session file that hold the user's name and home directory.
IndexLines ==
    { UserEntry(ContentStr(T_dana)),
      [UserHi EXCEPT !.timestamp = TsStr(TS1), !.cwd = Some(T_path)],
      AssistantEntry(ContentList(<<TextBlock(Some(T_path))>>)),
      AssistantEntry(ContentList(
          <<ThinkingBlock(Some(T_dana)),
            ToolUseBlock(Some(T_Read), DictInput(<<<<K_file_path, T_path>>>>))>>)),
      BadJsonLine, NonMappingLine }

LinesUpTo(n) == UNION {[1..k -> IndexLines] : k \in 0..n}

\* A project directory: absent, or its session files in name order.
Projects ==
    {None}
    \cup {Some(<<SessionFile("a", ls, FALSE)>>) : ls \in LinesUpTo(MaxRecords)}
    \cup {Some(<<SessionFile("a", ls, FALSE),
                 SessionFile("b", <<UserEntry(ContentStr(T_dana))>>, f)>>) :
              ls \in LinesUpTo(1), f \in BOOLEAN}

ProjectDirs ==
    { <<"-","U","s","e","r","s","-","a","l","i","c","e","-","D","o","c","u","m","e","n","t","s","-","m","y","a","p","p">>,
      <<"-","h","o","m","e","-","b","o","b","-","p","r","o","j","e","c","t">>,
      <<"s","t","a","n","d","a","l","o","n","e">>,
      <<"-","U","s","e","r","s","-","a","l","i","c","e">> }

\* The project lists build_index finds: one project, or two small ones.
ProjectLists ==
    {<<[dir_name |-> d, project |-> p]>> : d \in ProjectDirs, p \in Projects}
    \cup {<<[dir_name |-> <<"-","h","o","m","e","-","b","o","b","-","p","r","o","j","e","c","t">>, project |-> p],
            [dir_name |-> <<"s","t","a","n","d","a","l","o","n","e">>, project |-> q]>> :
              p \in {Some(<<SessionFile("a", ls, FALSE)>>) : ls \in LinesUpTo(1)},
              q \in {None, Some(<<SessionFile("b", <<UserHi>>, FALSE)>>),
                      Some(<<SessionFile("b", <<NonMappingLine>>, FALSE)>>)}}

\* What the index returns for a query: results with an id and a snippet.
Snippets ==
    {None, Some(<<>>), Some(T_hi), Some(T_dana), Some(T_path),
     Some(<<"c","d"," ","/","h","o","m","e","/","d","a","n","a","/","f">>)}
SearchResult(id, snippet) == [id |-> id, snippet |-> snippet]
ResultLists ==
    {<<>>}
    \cup {<<SearchResult("s1", s)>> : s \in Snippets}
    \cup {<<SearchResult("s1", s), SearchResult("s2", t)>> :
              s \in {Some(T_dana), Some(T_path)}, t \in {Some(T_dana), Some(T_hi)}}
Queries == {<<>>, <<" ">>, <<"d","a","n","a">>}

\* what the tool of the display anonymizer may do for each result
DisplayOutcomes(results) ==
    {outcomes \in [DOMAIN results ->
                       UNION {ToolOutcomes(Prefix(OrElse(s, <<>>), SnippetLength)) :
                                  s \in Snippets}] :
        \A i \in DOMAIN results :
            outcomes[i] \in ToolOutcomes(Prefix(OrElse(results[i].snippet, <<>>),
                                                SnippetLength))}

\* the arguments of a call, as log holds them
ParseCall(project_dir_name, project, anonymize) ==
    [op |-> "parse_project_sessions", dir_name |-> project_dir_name,
     project |-> project, anonymize |-> anonymize]
IndexCall(all_projects) == [op |-> "build_index", all_projects |-> all_projects]
SearchCall(query, results, outcomes, anonymize) ==
    [op |-> "search", query |-> query, results |-> results, outcomes |-> outcomes,
     anonymize |-> anonymize]
NameCall(dir_name) == [op |-> "_build_project_name", dir_name |-> dir_name]

\* parse_project_sessions(project_dir_name, anonymizer, include_thinking,
\* claude_dir, anonymize)
ParseProjectSessions(project_dir_name, project, anonymize) ==
    /\ source = "parse_project_sessions" /\ pc = "call"
    /\ \E r \in {parse_project_sessions(project_dir_name, project, anonymizer,
                                        include_thinking, anonymize)} :
           /\ pc' = IF r.raised THEN "raised" ELSE "returned"
           /\ result' = IF r.raised THEN None ELSE Some(r.value)
    /\ log' = Append(log, ParseCall(project_dir_name, project, anonymize))
    /\ UNCHANGED <<cache, threads, source, anonymizer, include_thinking, messages, metadata, stats,
                   skipped_lines>>

\* build_index(): the documents handed to the index and the errors recorded
BuildIndex(all_projects) ==
    /\ source = "build_index" /\ pc = "call"
    /\ result' = Some(IndexProjects(all_projects))
    /\ pc' = "returned"
    /\ log' = Append(log, IndexCall(all_projects))
    /\ UNCHANGED <<cache, threads, source, anonymizer, include_thinking, messages, metadata, stats,
                   skipped_lines>>

\* search(query, limit, min_confidence, anonymize)
Search(query, results, outcomes, anonymize) ==
    /\ source = "search" /\ pc = "call"
    /\ outcomes \in DisplayOutcomes(results)
    /\ result' = IF Strip(query) = <<>> THEN Some(<<>>)
                 ELSE Some(FormatResults(results, outcomes, anonymize))
    /\ pc' = "returned"
    /\ log' = Append(log, SearchCall(query, results, outcomes, anonymize))
    /\ UNCHANGED <<cache, threads, source, anonymizer, include_thinking, messages, metadata, stats,
                   skipped_lines>>

\* _build_project_name(dir_name)
BuildProjectName(dir_name) ==
    /\ source = "_build_project_name" /\ pc = "call"
    /\ result' = Some(_build_project_name(dir_name))
    /\ pc' = "returned"
    /\ log' = Append(log, NameCall(dir_name))
    /\ UNCHANGED <<cache, threads, source, anonymizer, include_thinking, messages, metadata, stats,
                   skipped_lines>>

SearchInit ==
    /\ source \in {"parse_project_sessions", "build_index", "search",
                   "_build_project_name"}
    /\ anonymizer \in (IF source = "parse_project_sessions"
                       THEN {"passthrough", "wrapper"}
                       ELSE IF source = "search" THEN {"wrapper"} ELSE {"passthrough"})
    /\ include_thinking \in (IF source = "parse_project_sessions" THEN BOOLEAN
                             ELSE {TRUE})
    /\ log = <<>>
    /\ messages = <<>>
    /\ metadata = NoMetadata(NoneAtom)
    /\ stats = NoStats
    /\ skipped_lines = 0
    /\ pc = "call"
    /\ result = None
    /\ cache = NoCache
    /\ threads = NoThreads

SearchNext ==
    \/ \E project_dir_name \in ProjectDirs : \E project \in Projects :
           \E anonymize \in BOOLEAN :
               ParseProjectSessions(project_dir_name, project, anonymize)
    \/ \E all_projects \in ProjectLists : BuildIndex(all_projects)
    \/ \E query \in Queries : \E results \in ResultLists :
           \E outcomes \in DisplayOutcomes(results) : \E anonymize \in BOOLEAN :
               Search(query, results, outcomes, anonymize)
    \/ \E dir_name \in DirNames : BuildProjectName(dir_name)

SearchSpec == SearchInit /\ [][SearchNext]_vars

-----------------------------------------------------------------------------
(* Search indexing and display                                             *)

\* a line whose message content is a plain string
RawUserText(r) ==
    r.kind = "entry" /\ r.type = "user" /\ r.message = "map" /\ r.content.k = "str"

\* the call that was made
TheCall == log[1]

\* the cut snippet of result r, before display
CutSnippet(r) == Prefix(OrElse(r.snippet, <<>>), SnippetLength)

\* the tool of the display anonymizer returned a text that is not empty
ToolGaveText(outcome) ==
    ~outcome.raised /\ OrElse(outcome.result, <<>>) # <<>>

\* C21: parse_project_sessions called with anonymize=False returns what it
\* returns for the pass-through anonymizer, whatever anonymizer was supplied,
\* and the content of a message of a plain-string user line is that string
\* unchanged; the documents build_index hands to the index are those of the
\* pass-through parse; search() with anonymize hands every cut snippet that
\* is not empty to the display anonymizer and returns what its tool gave
\* (the cut snippet when the tool raised or gave nothing), and without
\* anonymize returns the cut snippet.
C21_IndexRawDisplayAnonymized ==
    /\ (source = "parse_project_sessions" /\ pc # "call" /\ ~TheCall.anonymize) =>
           \E r \in {parse_project_sessions(TheCall.dir_name, TheCall.project,
                                            "passthrough", include_thinking, TRUE)} :
               /\ (pc = "raised") = r.raised
               /\ (pc = "returned" => Val(result) = r.value)
               /\ (/\ pc = "returned" /\ TheCall.project # None
                   /\ Len(Val(TheCall.project)) = 1
                   /\ Val(TheCall.project)[1].lines # <<>>
                   /\ \A i \in DOMAIN Val(TheCall.project)[1].lines :
                          RawUserText(Val(TheCall.project)[1].lines[i]))
                  => /\ Len(Val(result)) = 1
                     /\ [i \in DOMAIN Val(result)[1].messages |->
                            Val(result)[1].messages[i].content]
                        = [i \in DOMAIN Val(TheCall.project)[1].lines |->
                              Some(Val(TheCall.project)[1].lines[i].content.s)]
    /\ (source = "build_index" /\ pc = "returned") =>
           \A k \in DOMAIN Val(result).documents :
               \E p \in DOMAIN TheCall.all_projects :
                   \E r \in {parse_project_sessions(TheCall.all_projects[p].dir_name,
                                                    TheCall.all_projects[p].project,
                                                    "passthrough", TRUE, TRUE)} :
                       /\ ~r.raised
                       /\ \E j \in DOMAIN r.value :
                              /\ Val(result).documents[k].id = r.value[j].session_id
                              /\ Val(result).documents[k].content
                                 = Prefix(Join(<<" ">>, ContentParts(r.value[j].messages)),
                                          DEFAULT_MAX_CONTENT_LENGTH * 4)
    /\ (source = "search" /\ pc = "returned" /\ Strip(TheCall.query) # <<>>) =>
           /\ Len(Val(result)) = Len(TheCall.results)
           /\ \A i \in DOMAIN TheCall.results :
                  Val(result)[i].snippet
                  = IF /\ TheCall.anonymize
                       /\ CutSnippet(TheCall.results[i]) # <<>>
                       /\ ToolGaveText(TheCall.outcomes[i])
                    THEN Val(TheCall.outcomes[i].result)
                    ELSE CutSnippet(TheCall.results[i])

\* C21 witness: a project parsed with anonymize=False and an
\* AnonymizerWrapper supplied, whose session keeps the user's name that the
\* wrapper would have replaced.
C21_WrapperSuppliedRawKept ==
    /\ source = "parse_project_sessions" /\ pc = "returned"
    /\ anonymizer = "wrapper" /\ ~TheCall.anonymize
    /\ Len(Val(result)) = 1
    /\ Val(result)[1].messages[1].content = Some(T_dana)
    /\ AnonText("wrapper", T_dana) # T_dana

-----------------------------------------------------------------------------
(* The pattern caches under concurrent callers                             *)

\* a cache holds at most maxsize entries, no key twice, and under each key
\* the pattern compiled from that key
CacheCoherent(fn) ==
    /\ Len(cache[fn]) <= maxsize
    /\ \A i \in DOMAIN cache[fn] :
           cache[fn][i].value = Compiled(fn, cache[fn][i].key)
    /\ \A i, j \in DOMAIN cache[fn] :
           cache[fn][i].key = cache[fn][j].key => i = j

\* C22: under every interleaving of the callers each cache stays within
\* maxsize entries and holds under each key the pattern compiled from it,
\* the pattern a getter hands to a caller is the one compiled from the
\* caller's key, whether it came from the cache or from the caller's own
\* compilation, and the text a call returns is the text anonymize_text
\* gives for the call's arguments alone.
C22_CacheSafeUnderInterleaving ==
    source = "cache" =>
        /\ \A fn \in Getters : CacheCoherent(fn)
        /\ \A t \in Threads :
               /\ threads[t].at = "sub" =>
                      threads[t].pat = Compiled(threads[t].fn, KeyOf(threads[t]))
               /\ threads[t].at = "returned" =>
                      threads[t].out
                      = Some(anonymize_text(threads[t].text0, threads[t].username,
                                            threads[t].username_hash,
                                            Some(threads[t].home)))

\* C22 witness: two callers missed for the same username and the second
\* found the key stored on its return, while a third caller's miss evicted
\* an entry of the full cache, and the first caller has its result.
C22_DuplicateAndEviction ==
    /\ source = "cache"
    /\ threads["t2"].at = "sub" /\ threads["t2"].note = "duplicate"
    /\ threads["t3"].at = "sub" /\ threads["t3"].note = "evicted"
    /\ threads["t1"].at = "returned" /\ threads["t1"].out # Some(T_names)
    /\ Len(cache["username"]) = maxsize
    /\ ~CacheHas(cache["username"], threads["t2"].username)


-----------------------------------------------------------------------------
(* The project label                                                       *)

\* the hyphen-separated segments of an identifier, leading hyphens dropped
SegmentsOf(dir_name) == Split(LStripChar(dir_name, "-"), "-")

\* what is left of the segments after the marker, the username and at most
\* one container segment
TailOf(segments) ==
    SubSeq(segments,
           IF Len(segments) >= 3 /\ segments[3] \in common_dirs THEN 4 ELSE 3,
           Len(segments))

\* C23: for an identifier of non-empty segments whose first two are a home
\* marker (Users or home) and a username, the label is the hyphen-joined
\* tail left after the marker, the username and at most one container
\* segment, and a placeholder starting with "~" that is not the identifier
\* when no tail is left; an identifier without a marker maps to itself
\* without its leading hyphens.
C23_LabelIsTailOrPlaceholder ==
    (source = "_build_project_name" /\ pc = "returned"
        /\ \A i \in DOMAIN SegmentsOf(TheCall.dir_name) :
               SegmentsOf(TheCall.dir_name)[i] # <<>>) =>
        IF /\ Len(SegmentsOf(TheCall.dir_name)) >= 2
           /\ SegmentsOf(TheCall.dir_name)[1] \in {T_Users, T_home}
        THEN IF TailOf(SegmentsOf(TheCall.dir_name)) # <<>>
             THEN Val(result) = Join(<<"-">>, TailOf(SegmentsOf(TheCall.dir_name)))
             ELSE /\ Val(result) # TheCall.dir_name
                  /\ Val(result) # <<>>
                  /\ Val(result)[1] = "~"
        ELSE Val(result) = LStripChar(TheCall.dir_name, "-")

-----------------------------------------------------------------------------
(* Counters and messages                                                   *)

\* how many of the messages have the role
CountRole(msgs, role) == Cardinality({i \in DOMAIN msgs : msgs[i].role = role})

\* the tool uses of all the messages together
RECURSIVE TotalToolUses(_)
TotalToolUses(msgs) ==
    IF msgs = <<>> THEN 0
    ELSE Len(Head(msgs).tool_uses) + TotalToolUses(Tail(msgs))

\* C24: in both parsers, after every record read, user_messages is the
\* number of messages with role user, assistant_messages the number with
\* role assistant, their sum the length of messages, and tool_uses the
\* number of tool uses over all messages.
C24_CountersMatchMessages ==
    source \in {"claude", "cursor"} =>
        /\ stats.user_messages = CountRole(messages, "user")
        /\ stats.assistant_messages = CountRole(messages, "assistant")
        /\ stats.user_messages + stats.assistant_messages = Len(messages)
        /\ stats.tool_uses = TotalToolUses(messages)

\* C24 witness: a session file read to a user message and an assistant
\* message that holds more than one tool use.
C24_UserAndToolMessages ==
    /\ source = "claude" /\ pc = "loop"
    /\ Len(messages) = 2
    /\ messages[1].role = "user"
    /\ messages[2].role = "assistant"
    /\ Len(messages[2].tool_uses) > 1
    /\ stats.tool_uses = Len(messages[2].tool_uses)

-----------------------------------------------------------------------------
(* anonymize_text applied twice                                            *)

\* C25: for a username of 4 or more characters anonymize_text applied to
\* its own output returns that output unchanged, and the output holds no
\* occurrence of the username as a whole token, also for a username that
\* stands in the "user_" prefix of the hash token.
C25_IdempotentNoResidue ==
    source = "text" /\ pc = "returned" /\ Len(anonymizer.username) >= 4 =>
        /\ anonymize_text(CallResult, anonymizer.username, anonymizer.username_hash,
                          Some(anonymizer.home)) = CallResult
        /\ \A i \in 1..Len(CallResult) :
               ~WholeTokenAt(CallResult, i, anonymizer.username)

====
